---- MODULE Spec2Model ----
(***************************************************************************)
(* Model of WeatherService (src/weather_service.py): the provider          *)
(* waterfall of get_weather_data (Weather Union, then IMD, then            *)
(* Open-Meteo, then mock data) as the coroutine's steps between awaits.    *)
(*                                                                         *)
(* Numbers are fixed-point tenths (28.5 is 285, 75 is 750).  A Python dict *)
(* is a function whose domain is its set of keys.                          *)
(***************************************************************************)
EXTENDS Integers, Sequences, FiniteSets, TLC

VARIABLES pc, city, state, location, requests, inflight, attempts, status,
          outcome, result, raised, calls

\* a call of get_irrigation_recommendation: its arguments, its position,
\* what it returned or raised, and one earlier call kept for comparison
VARIABLES weather_data, crop, apc, advice, advice_exc, earlier

\* the variables of a call of get_weather_data
rvars == <<pc, city, state, location, requests, inflight, attempts, status,
           outcome, result, raised, calls>>
\* the variables of a call of get_irrigation_recommendation
avars == <<weather_data, crop, apc, advice, advice_exc, earlier>>

\* two calls of get_weather_data on the one service instance, in progress
\* at the same time: the instance's attributes, the locals of each call,
\* the requests and the responses in flight, and what the providers
\* answered to each call
VARIABLES service, frame, sent, inbox, replied

cvars == <<service, frame, sent, inbox, replied>>

\* the other handlers of the server, each with the locals of its call in
\* progress: the get_weather_recommendations tool, the keep-alive thread,
\* calculate_planting_schedule, create_farming_calendar, the authentication
\* middleware and the market service
VARIABLES tool, ping, planting, farming, auth, market

xvars == <<tool, ping, planting, farming, auth, market>>

vars == <<rvars, avars, cvars, xvars>>

\* calls of get_weather_data the model follows, one after the other
MaxCalls == 2

\* rounds of the keep-alive loop the model follows
MaxRounds == 5

----------------------------------------------------------------------------
(* Python values *)

\* Python None where a number is expected (dict.get of an absent key, JSON null)
NoneNum == -99999
\* Python None passed as the optional state argument
NoneStr == "<None>"
\* an argument that is not a str and whose truth value cannot be taken
\* (bool() of it raises ValueError)
NoTruthValue == "<no truth value>"
\* a local variable that has not been assigned
Unbound == "<unbound>"

EmptyDict == [k \in {} |-> 0]

Range(seq) == {seq[i] : i \in DOMAIN seq}

\* d.get(k)
Get(d, k) == IF k \in DOMAIN d THEN d[k] ELSE NoneNum
\* d.get(k, default)
GetD(d, k, default) == IF k \in DOMAIN d THEN d[k] ELSE default

\* truth value of a str argument (None and "" are falsy)
TruthyStr(s) == s # "" /\ s # NoneStr
\* truth value of a dict
TruthyDict(d) == DOMAIN d # {}
\* f"{s}" of a str-or-None
Fmt(s) == IF s = NoneStr THEN "None" ELSE s

----------------------------------------------------------------------------
(* Inputs and environment *)

Cities == {"Delhi", "PUNE", "Ludhiana"}
States == {"", "Punjab", NoneStr}

\* str.lower() on the cities of the model
Lower(c) == CASE c = "Delhi" -> "delhi"
              [] c = "PUNE" -> "pune"
              [] c = "Ludhiana" -> "ludhiana"
              [] c = "Wheat" -> "wheat"
              [] c = "RICE" -> "rice"
              [] c = "Onion" -> "onion"
              [] OTHER -> c

city_coords == {"delhi", "mumbai", "bangalore", "chennai", "kolkata",
                "hyderabad", "pune", "ahmedabad"}

\* the HTTP requests a call can issue
ReqA == "weather_union/current"
ReqBcur == "imd/current_wx_api"
ReqBfc == "imd/cityweather"
ReqC == "open_meteo/forecast"
Reqs == {ReqA, ReqBcur, ReqBfc, ReqC}
Providers == {"A", "B", "C"}

\* exceptions a request or the decoding of its body can raise
HttpExceptions == {"ConnectError", "TimeoutException"}
ExceptionClasses == HttpExceptions \cup {"JSONDecodeError", "AttributeError", "ClientInitError",
                                         "ValueError", "TypeError", "KeyError",
                                         "UnboundLocalError", "APIError",
                                         "ZeroDivisionError"}

\* payload values per key (tenths)
ValsOf(k) == CASE k = "temperature" -> {NoneNum, 360}
               [] k = "humidity" -> {390}
               [] k = "rainfall" -> {100}
               [] OTHER -> {0}
BodyKeys == {"temperature", "humidity"}
AllVals == UNION {ValsOf(k) : k \in BodyKeys}
DictBodies == UNION {{d \in [S -> AllVals] : \A k \in S : d[k] \in ValsOf(k)} : S \in SUBSET BodyKeys}

\* a response body: text that is not JSON, a JSON array, or a JSON object d.
\* Open-Meteo nests its values: cur says what the object holds under
\* "current" (no such key, null, or the object d) and hourly whether it has
\* an "hourly" key.
Body(j, c, h, d) == [json |-> j, cur |-> c, hourly |-> h, d |-> d]
NoBody == Body("none", "absent", "absent", EmptyDict)
Malformed == Body("malformed", "absent", "absent", EmptyDict)
JsonList == Body("list", "absent", "absent", EmptyDict)
\* the JSON object {}
EmptyJson == Body("dict", "absent", "absent", EmptyDict)
\* the value of Open-Meteo's "hourly" key (opaque to the service)
HourlyJson == Body("dict", "absent", "absent", [k \in {"time"} |-> 0])

FlatBodies == {Malformed, JsonList} \cup {Body("dict", "absent", "absent", d) : d \in DictBodies}

\* Open-Meteo's keys inside "current"
MeteoKeys == {"temperature_2m", "relative_humidity_2m"}
MeteoValsOf(k) == CASE k = "temperature_2m" -> {NoneNum, 320}
                    [] k = "relative_humidity_2m" -> {500}
                    [] k = "precipitation" -> {60}
                    [] OTHER -> {0}
MeteoVals == UNION {MeteoValsOf(k) : k \in MeteoKeys}
MeteoDicts == UNION {{d \in [S -> MeteoVals] : \A k \in S : d[k] \in MeteoValsOf(k)} : S \in SUBSET MeteoKeys}
MeteoBodies == {Malformed, JsonList}
                 \cup {Body("dict", c, h, EmptyDict) : c \in {"absent", "null"}, h \in {"absent", "present"}}
                 \cup {Body("dict", "dict", h, d) : h \in {"absent", "present"}, d \in MeteoDicts}

\* the forecast endpoint's payload is passed through unread
ForecastBodies == {Malformed, JsonList, EmptyJson, HourlyJson}

\* what awaiting a request yields: an exception, or a response
NoOutcome == [exc |-> "unset", status |-> 0, body |-> NoBody]
Threw(e) == [exc |-> e, status |-> 0, body |-> NoBody]
Resp(s, b) == [exc |-> "none", status |-> s, body |-> b]
\* bodies of the responses whose status is not 200
ErrorBodies == {Malformed, EmptyJson}
Outcomes(bodies) == {Threw(e) : e \in HttpExceptions}
                      \cup {Resp(200, b) : b \in bodies}
                      \cup {Resp(500, b) : b \in ErrorBodies}

----------------------------------------------------------------------------
(* The service's functions, each from the point where its request completed *)

\* what a function call yields: a value, or an exception
Ret(v) == [exc |-> "none", val |-> v]
Raise(e) == [exc |-> e, val |-> EmptyDict]

\* as if the handlers read `except httpx.HTTPError`
except_HTTPError(e) == e \in HttpExceptions
\* as if the handlers read `except (httpx.NetworkError, ValueError, AttributeError)`
except_not_timeout(e) == e \in ExceptionClasses \ {"TimeoutException"}

\* as if the handlers read `except KeyError`
except_KeyError(e) == e = "KeyError"

\* `except Exception` catches every exception class of the model
except_Exception(e) == e \in ExceptionClasses

\* as if the placeholder were the defaults of the irrigation table
_get_mock_weather_data_defaults(c) ==
    [temp |-> 250, humidity |-> 600, pressure |-> 10130,
     weather |-> <<[main |-> "Clear", description |-> "clear sky"]>>,
     wind |-> [speed |-> 32],
     rain |-> [k \in {"1h"} |-> 0],
     name |-> c]

_get_mock_weather_data(c) ==
    [temp |-> 285, humidity |-> 750, pressure |-> 10130,
     weather |-> <<[main |-> "Clear", description |-> "clear sky"]>>,
     wind |-> [speed |-> 32],
     rain |-> [k \in {"1h"} |-> 0],
     name |-> c]

_get_mock_forecast_data == Body("dict", "absent", "absent", [k \in {"list"} |-> 1])

\* lines 66-80, given the outcome of the request of line 65
_get_weather_union_data(c, s, out) ==
    IF out.exc # "none" THEN Raise(out.exc)
    ELSE IF out.status = 200
    THEN IF out.body.json = "malformed" THEN Raise("JSONDecodeError")
         ELSE IF out.body.json # "dict" THEN Raise("AttributeError")
         ELSE LET data == out.body.d IN
              Ret([current |-> [temp |-> Get(data, "temperature"),
                                humidity |-> Get(data, "humidity"),
                                pressure |-> Get(data, "pressure"),
                                weather |-> <<[main |-> "Clear"]>>,
                                wind |-> [speed |-> GetD(data, "wind_speed", 0)],
                                rain |-> [k \in {"1h"} |-> GetD(data, "rainfall", 0)]],
                   location |-> c \o ", " \o Fmt(s),
                   source |-> "weather_union"])
    ELSE Ret([error |-> "Weather Union API failed"])

\* as if line 88 tested forecast_response.status_code
_get_imd_data_forecast_status(c, cur, fc) ==
    IF cur.exc # "none" THEN Raise(cur.exc)
    ELSE IF fc.exc # "none" THEN Raise(fc.exc)
    ELSE IF fc.status = 200
    THEN IF cur.body.json = "malformed" THEN Raise("JSONDecodeError")
         ELSE IF fc.body.json = "malformed" THEN Raise("JSONDecodeError")
         ELSE IF cur.body.json # "dict" THEN Raise("AttributeError")
         ELSE Ret([current |-> [temp |-> Get(cur.body.d, "temperature"),
                                humidity |-> Get(cur.body.d, "humidity"),
                                pressure |-> Get(cur.body.d, "pressure"),
                                weather |-> <<[main |-> "Clear"]>>,
                                wind |-> [speed |-> GetD(cur.body.d, "wind_speed", 0)],
                                rain |-> [k \in {"1h"} |-> GetD(cur.body.d, "rainfall", 0)]],
                   forecast |-> fc.body,
                   location |-> c,
                   source |-> "imd_official"])
    ELSE Ret([error |-> "IMD API failed"])

\* lines 88-105, given the outcomes of the requests of lines 85 and 86
_get_imd_data(c, cur, fc) ==
    IF cur.exc # "none" THEN Raise(cur.exc)
    ELSE IF fc.exc # "none" THEN Raise(fc.exc)
    ELSE IF cur.status = 200
    THEN IF cur.body.json = "malformed" THEN Raise("JSONDecodeError")
         ELSE IF fc.status = 200 /\ fc.body.json = "malformed" THEN Raise("JSONDecodeError")
         ELSE IF cur.body.json # "dict" THEN Raise("AttributeError")
         ELSE LET current_data == cur.body.d
                  forecast_data == IF fc.status = 200 THEN fc.body ELSE EmptyJson
              IN Ret([current |-> [temp |-> Get(current_data, "temperature"),
                                   humidity |-> Get(current_data, "humidity"),
                                   pressure |-> Get(current_data, "pressure"),
                                   weather |-> <<[main |-> "Clear"]>>,
                                   wind |-> [speed |-> GetD(current_data, "wind_speed", 0)],
                                   rain |-> [k \in {"1h"} |-> GetD(current_data, "rainfall", 0)]],
                      forecast |-> forecast_data,
                      location |-> c,
                      source |-> "imd_official"])
    ELSE Ret([error |-> "IMD API failed"])

\* as if line 123 were missing
HasCoords_unchecked(c) == TRUE

\* lines 122-124: the coordinates lookup that precedes the request
HasCoords(c) == Lower(c) \in city_coords

\* as if the current object of line 141 lacked its humidity entry
_get_open_meteo_data_no_humidity(c, s, out) ==
    IF out.exc # "none" THEN Raise(out.exc)
    ELSE IF out.status = 200
    THEN IF out.body.json = "malformed" THEN Raise("JSONDecodeError")
         ELSE IF out.body.json # "dict" THEN Raise("AttributeError")
         ELSE IF out.body.cur = "null" THEN Raise("AttributeError")
         ELSE LET current == IF out.body.cur = "dict" THEN out.body.d ELSE EmptyDict IN
              Ret([current |-> [temp |-> Get(current, "temperature_2m"),
                                weather |-> <<[main |-> "Clear"]>>,
                                wind |-> [speed |-> GetD(current, "wind_speed_10m", 0)],
                                rain |-> [k \in {"1h"} |-> GetD(current, "precipitation", 0)]],
                   forecast |-> IF out.body.hourly = "present" THEN HourlyJson ELSE EmptyJson,
                   location |-> c \o ", " \o Fmt(s),
                   source |-> "open_meteo"])
    ELSE Ret([error |-> "Open-Meteo API failed"])

\* lines 136-152, given the outcome of the request of line 135
_get_open_meteo_data(c, s, out) ==
    IF out.exc # "none" THEN Raise(out.exc)
    ELSE IF out.status = 200
    THEN IF out.body.json = "malformed" THEN Raise("JSONDecodeError")
         ELSE IF out.body.json # "dict" THEN Raise("AttributeError")
         ELSE IF out.body.cur = "null" THEN Raise("AttributeError")
         ELSE LET current == IF out.body.cur = "dict" THEN out.body.d ELSE EmptyDict IN
              Ret([current |-> [temp |-> Get(current, "temperature_2m"),
                                humidity |-> Get(current, "relative_humidity_2m"),
                                weather |-> <<[main |-> "Clear"]>>,
                                wind |-> [speed |-> GetD(current, "wind_speed_10m", 0)],
                                rain |-> [k \in {"1h"} |-> GetD(current, "precipitation", 0)]],
                   forecast |-> IF out.body.hourly = "present" THEN HourlyJson ELSE EmptyJson,
                   location |-> c \o ", " \o Fmt(s),
                   source |-> "open_meteo"])
    ELSE Ret([error |-> "Open-Meteo API failed"])

\* as if the fallback block had been copied from the Open-Meteo one, tag included
MockResult_tagged_open_meteo(c, loc) ==
    [current |-> _get_mock_weather_data(c),
     forecast |-> _get_mock_forecast_data,
     location |-> loc,
     source |-> "open_meteo"]

\* lines 48-53
MockResult(c, loc) ==
    [current |-> _get_mock_weather_data(c),
     forecast |-> _get_mock_forecast_data,
     location |-> loc,
     source |-> "mock_data"]

\* line 56
ErrorResult(e, loc) == [error |-> e, location |-> loc]

\* as if the tests read `"error" in data`
Accepted_inverted(r) == r.exc = "none" /\ TruthyDict(r.val) /\ "error" \in DOMAIN r.val

\* lines 26, 34, 42: the test that lets a provider's value be returned
Accepted(r) == r.exc = "none" /\ TruthyDict(r.val) /\ "error" \notin DOMAIN r.val

----------------------------------------------------------------------------
(* get_irrigation_recommendation *)

\* Python None where a dict is expected
NoneObj == [k \in {"<None>"} |-> 0]

MsgRain == "Due to rain, no irrigation needed today."
MsgExtremeHeat == "Extreme heat - irrigate immediately."
MsgHot == "Hot weather - irrigate in evening."
MsgRegular == "Weather is favorable - regular irrigation."
MsgUnavailable == "Weather data not available - follow regular irrigation schedule."

\* the defaults of lines 182-184 (tenths)
DefaultTemp == 250
DefaultHumidity == 600
DefaultRain == 0

\* the comparisons of lines 186, 188 and 190 (tenths)
rain_gt_5(rain) == rain > 50
humidity_lt_40(humidity) == humidity < 400
\* as if line 188 read `temp >= 35`
temp_ge_35(temp) == temp >= 350
temp_gt_35(temp) == temp > 350
humidity_lt_60(humidity) == humidity < 600
temp_gt_30(temp) == temp > 300

\* as if the hot-weather test of line 190 came before the extreme-heat test
irrigation_table_hot_first(temp, humidity, rain) ==
    IF rain = NoneNum THEN Raise("TypeError")
    ELSE IF rain_gt_5(rain) THEN Ret(MsgRain)
    ELSE IF humidity = NoneNum THEN Raise("TypeError")
    ELSE IF humidity_lt_60(humidity) /\ temp = NoneNum THEN Raise("TypeError")
    ELSE IF humidity_lt_60(humidity) /\ temp_gt_30(temp) THEN Ret(MsgHot)
    ELSE IF humidity_lt_40(humidity) /\ temp_gt_35(temp) THEN Ret(MsgExtremeHeat)
    ELSE Ret(MsgRegular)

\* as if the rain test of line 186 came after the two heat tests
irrigation_table_rain_last(temp, humidity, rain) ==
    IF humidity = NoneNum THEN Raise("TypeError")
    ELSE IF humidity_lt_40(humidity) /\ temp = NoneNum THEN Raise("TypeError")
    ELSE IF humidity_lt_40(humidity) /\ temp_gt_35(temp) THEN Ret(MsgExtremeHeat)
    ELSE IF humidity_lt_60(humidity) /\ temp = NoneNum THEN Raise("TypeError")
    ELSE IF humidity_lt_60(humidity) /\ temp_gt_30(temp) THEN Ret(MsgHot)
    ELSE IF rain = NoneNum THEN Raise("TypeError")
    ELSE IF rain_gt_5(rain) THEN Ret(MsgRain)
    ELSE Ret(MsgRegular)

\* lines 186-193: the if/elif chain, evaluated left to right; comparing None
\* with a number raises TypeError, and `and` does not evaluate its right
\* side when its left side is false
irrigation_table(temp, humidity, rain) ==
    IF rain = NoneNum THEN Raise("TypeError")
    ELSE IF rain_gt_5(rain) THEN Ret(MsgRain)
    ELSE IF humidity = NoneNum THEN Raise("TypeError")
    ELSE IF humidity_lt_40(humidity) /\ temp = NoneNum THEN Raise("TypeError")
    ELSE IF humidity_lt_40(humidity) /\ temp_gt_35(temp) THEN Ret(MsgExtremeHeat)
    ELSE IF humidity_lt_60(humidity) /\ temp = NoneNum THEN Raise("TypeError")
    ELSE IF humidity_lt_60(humidity) /\ temp_gt_30(temp) THEN Ret(MsgHot)
    ELSE Ret(MsgRegular)

\* as if line 183 read current["humidity"]
irrigation_try_subscript(wd, cr) ==
    IF wd = NoneObj THEN Raise("AttributeError")
    ELSE LET current == GetD(wd, "current", EmptyDict) IN
         IF current = NoneObj THEN Raise("AttributeError")
         ELSE IF "humidity" \notin DOMAIN current THEN Raise("KeyError")
         ELSE LET temp == GetD(current, "temp", DefaultTemp)
                  humidity == current["humidity"]
                  rain_obj == GetD(current, "rain", EmptyDict)
              IN IF rain_obj = NoneObj THEN Raise("AttributeError")
                 ELSE irrigation_table(temp, humidity, GetD(rain_obj, "1h", DefaultRain))

\* lines 181-193: the body of the try block; None has no get method
irrigation_try(wd, cr) ==
    IF wd = NoneObj THEN Raise("AttributeError")
    ELSE LET current == GetD(wd, "current", EmptyDict) IN
         IF current = NoneObj THEN Raise("AttributeError")
         ELSE LET temp == GetD(current, "temp", DefaultTemp)
                  humidity == GetD(current, "humidity", DefaultHumidity)
                  rain_obj == GetD(current, "rain", EmptyDict)
              IN IF rain_obj = NoneObj THEN Raise("AttributeError")
                 ELSE irrigation_table(temp, humidity, GetD(rain_obj, "1h", DefaultRain))

\* as if rice, grown in standing water, were given its own answer
get_irrigation_recommendation_by_crop(wd, cr) ==
    LET r == irrigation_try(wd, cr) IN
    IF r.exc = "none" THEN (IF cr = "rice" /\ r.val = MsgHot THEN Ret(MsgExtremeHeat) ELSE r)
    ELSE IF except_Exception(r.exc) THEN Ret(MsgUnavailable)
    ELSE r

\* lines 178-196
get_irrigation_recommendation(wd, cr) ==
    LET r == irrigation_try(wd, cr) IN
    IF r.exc = "none" THEN r
    ELSE IF except_Exception(r.exc) THEN Ret(MsgUnavailable)
    ELSE r

----------------------------------------------------------------------------
(* get_weather_data as a coroutine: one action per stretch between awaits *)

NoResult == EmptyDict

\* lines 6-15: the attributes __init__ gives the instance
ServiceInit ==
    [weather_union_url |-> "https://www.weatherunion.com/api/v1",
     imd_current_url |-> "https://mausam.imd.gov.in/api/current_wx_api.php",
     imd_forecast_url |-> "https://city.imd.gov.in/api/cityweather.php",
     open_meteo_url |-> "https://api.open-meteo.com/v1"]

\* the calls in progress at the same time
MaxConcurrent == 2
CallIds == 1..MaxConcurrent
NoOutcomes == [r \in Reqs |-> NoOutcome]
\* the locals of a call that has not started
IdleFrame ==
    [pc |-> "idle", city |-> "", state |-> "", location |-> "", requests |-> <<>>,
     outcome |-> NoOutcomes, result |-> NoResult, raised |-> FALSE]
\* the other handlers before their first call
NoRequest == [city |-> "", state |-> "", crop |-> ""]
NoResponse == EmptyDict
ToolInit ==
    [pc |-> "idle", request |-> NoRequest, weather_data |-> EmptyDict,
     advised |-> FALSE, irrigation_rec |-> "", llm_calls |-> 0, llm |-> "none",
     response |-> NoResponse, raised |-> FALSE]
\* the keep-alive thread before keep_server_alive starts it: the locals of
\* ping_server, and for the claims what each request of the round in
\* progress gave (tried), how each finished round ended (history) and
\* whether the last finished round printed the alarm of line 68
PingInit ==
    [pc |-> "idle", consecutive_failures |-> 0, success |-> FALSE, endpoint |-> 0,
     tried |-> <<>>, history |-> <<>>, alarm |-> FALSE]
NoPlantingRequest == [location |-> "", crops |-> <<>>]
PlantingInit ==
    [pc |-> "idle", request |-> NoPlantingRequest, current_month |-> 0,
     schedule |-> EmptyDict, response |-> NoResponse, raised |-> FALSE, served |-> 0]
NoDate == [year |-> 0, month |-> 0, day |-> 0]
FarmingInit ==
    [pc |-> "idle", crops |-> <<>>, current_date |-> NoDate, months |-> <<>>,
     calendar_data |-> EmptyDict, response |-> NoResponse, raised |-> FALSE, served |-> 0]
AuthInit ==
    [pc |-> "idle", method |-> "", auth_header |-> <<>>, token |-> <<>>,
     verified |-> FALSE, verdict |-> FALSE, ran |-> FALSE, outcome |-> "none",
     served |-> 0]
NoMarketRequest == [crop |-> "", state |-> "", area_acres |-> 0, investment |-> 0]
MarketInit ==
    [pc |-> "idle", request |-> NoMarketRequest, market_data |-> EmptyDict,
     profitability |-> EmptyDict, response |-> NoResponse, raised |-> FALSE, served |-> 0]
NoAdvice == ""
NoEarlier == [set |-> FALSE, key |-> EmptyDict, crop |-> "", advice |-> NoAdvice, exc |-> "none"]

Init ==
    /\ pc = "idle"
    /\ city = ""
    /\ state = ""
    /\ location = ""
    /\ requests = <<>>
    /\ inflight = {}
    /\ attempts = <<>>
    /\ status = [p \in Providers |-> "none"]
    /\ outcome = [r \in Reqs |-> NoOutcome]
    /\ result = NoResult
    /\ raised = FALSE
    /\ calls = 0
    /\ weather_data = NoneObj
    /\ crop = ""
    /\ apc = "idle"
    /\ advice = NoAdvice
    /\ advice_exc = "none"
    /\ earlier = NoEarlier
    /\ service = ServiceInit
    /\ frame = [i \in CallIds |-> IdleFrame]
    /\ sent = {}
    /\ inbox = {}
    /\ replied = [i \in CallIds |-> NoOutcomes]
    /\ tool = ToolInit
    /\ ping = PingInit
    /\ planting = PlantingInit
    /\ farming = FarmingInit
    /\ auth = AuthInit
    /\ market = MarketInit

\* a return statement of get_weather_data
Finish(res) ==
    /\ pc' = "done"
    /\ result' = res
    /\ raised' = FALSE

\* lines 55-56: an exception that reaches the outer try; the handler reads
\* the local variable location, and reading it unassigned raises
\* UnboundLocalError out of the handler
Propagate(e, loc) ==
    IF except_Exception(e) /\ loc # Unbound
    THEN Finish(ErrorResult(e, loc))
    ELSE /\ pc' = "done"
         /\ result' = NoResult
         /\ raised' = TRUE

\* as if the Open-Meteo block came before the IMD block
Following_swapped(p) == CASE p = "A" -> "C"
                          [] p = "C" -> "B"
                          [] OTHER -> "mock"
\* as if a failed Weather Union attempt were tried again
Following_retry(p) == CASE p = "A" -> "A"
                        [] p = "B" -> "C"
                        [] OTHER -> "mock"

\* what get_weather_data runs after provider p's try block did not return:
\* the next try block (lines 31-33, 39-41), then the mock data (line 47)
Following(p) == CASE p = "A" -> "B"
                  [] p = "B" -> "C"
                  [] OTHER -> "mock"

\* as if every request were sent a second time
Issue_twice(r, reqs) ==
    /\ requests' = reqs \o <<r, r>>
    /\ inflight' = {r}

\* client.get(...) of lines 65, 85, 86, 135: the request is sent and awaited
Issue(r, reqs) ==
    /\ requests' = Append(reqs, r)
    /\ inflight' = {r}

RECURSIVE Start(_, _, _, _, _, _)
\* enter the try block of provider p (or the mock return) and run to its
\* first await or to the return
Start(p, c, loc, reqs, atts, st) ==
    IF p = "A"
    THEN /\ Issue(ReqA, reqs)
         /\ attempts' = Append(atts, "A")
         /\ status' = [st EXCEPT !["A"] = "pending"]
         /\ pc' = "awaitA"
         /\ UNCHANGED <<result, raised>>
    ELSE IF p = "B"
    THEN /\ Issue(ReqBcur, reqs)
         /\ attempts' = Append(atts, "B")
         /\ status' = [st EXCEPT !["B"] = "pending"]
         /\ pc' = "awaitBcur"
         /\ UNCHANGED <<result, raised>>
    ELSE IF p = "C"
    THEN IF HasCoords(c)
         THEN /\ Issue(ReqC, reqs)
              /\ attempts' = Append(atts, "C")
              /\ status' = [st EXCEPT !["C"] = "pending"]
              /\ pc' = "awaitC"
              /\ UNCHANGED <<result, raised>>
         ELSE \* line 124: an error value, no request
              Start(Following("C"), c, loc, reqs, Append(atts, "C"),
                    [st EXCEPT !["C"] = "failed"])
    ELSE /\ requests' = reqs
         /\ inflight' = {}
         /\ attempts' = atts
         /\ status' = st
         /\ Finish(MockResult(c, loc))

\* lines 19-25: the call up to the first await
Called(c, s, clientOK) ==
    /\ pc = "idle"
    /\ calls < MaxCalls
    /\ city' = c
    /\ state' = s
    /\ LET loc == IF TruthyStr(s) THEN c \o "," \o s ELSE c IN
       /\ location' = loc
       /\ IF clientOK
          THEN Start("A", c, loc, <<>>, <<>>, status)
          ELSE \* httpx.AsyncClient() of line 22 raises
               /\ Propagate("ClientInitError", loc)
               /\ UNCHANGED <<requests, inflight, attempts, status>>
    /\ UNCHANGED <<outcome, calls>>

\* a call from a caller that keeps nothing else
Call(c, s, clientOK) ==
    /\ Called(c, s, clientOK)
    /\ UNCHANGED <<avars, cvars, xvars>>

\* lines 19-20 and 55-56: a call whose state argument makes `if state`
\* raise, so that line 20 leaves location unassigned
CallNoTruthValue(c) ==
    /\ pc = "idle"
    /\ calls < MaxCalls
    /\ city' = c
    /\ state' = NoTruthValue
    /\ location' = Unbound
    /\ Propagate("ValueError", Unbound)
    /\ UNCHANGED <<requests, inflight, attempts, status, outcome, calls, avars, cvars, xvars>>

\* as if a provider whose result is not accepted were awaited again until
\* it gives one
Complete_until_accepted(p, r) ==
    IF Accepted(r)
    THEN /\ status' = [status EXCEPT ![p] = "ok"]
         /\ inflight' = {}
         /\ Finish(r.val)
         /\ UNCHANGED <<requests, attempts>>
    ELSE /\ pc' = IF p = "B" THEN "awaitBcur" ELSE pc
         /\ UNCHANGED <<requests, inflight, attempts, status, result, raised>>

\* what follows the completion r of provider p's function (lines 26-29,
\* 34-37, 42-45)
Complete(p, r) ==
    IF Accepted(r)
    THEN /\ status' = [status EXCEPT ![p] = "ok"]
         /\ inflight' = {}
         /\ Finish(r.val)
         /\ UNCHANGED <<requests, attempts>>
    ELSE IF r.exc # "none" /\ ~except_Exception(r.exc)
    THEN /\ status' = [status EXCEPT ![p] = "failed"]
         /\ inflight' = {}
         /\ Propagate(r.exc, location)
         /\ UNCHANGED <<requests, attempts>>
    ELSE Start(Following(p), city, location, requests, attempts,
               [status EXCEPT ![p] = "failed"])

\* the request of line 65 completes
ResumeA(out) ==
    /\ pc = "awaitA"
    /\ outcome' = [outcome EXCEPT ![ReqA] = out]
    /\ Complete("A", _get_weather_union_data(city, state, out))
    /\ UNCHANGED <<city, state, location, calls, avars, cvars, xvars>>

\* the request of line 85 completes
ResumeBcur(out) ==
    /\ pc = "awaitBcur"
    /\ outcome' = [outcome EXCEPT ![ReqBcur] = out]
    /\ IF out.exc # "none"
       THEN Complete("B", Raise(out.exc))
       ELSE /\ Issue(ReqBfc, requests)
            /\ pc' = "awaitBfc"
            /\ UNCHANGED <<attempts, status, result, raised>>
    /\ UNCHANGED <<city, state, location, calls, avars, cvars, xvars>>

\* the request of line 86 completes
ResumeBfc(out) ==
    /\ pc = "awaitBfc"
    /\ outcome' = [outcome EXCEPT ![ReqBfc] = out]
    /\ Complete("B", _get_imd_data(city, outcome[ReqBcur], out))
    /\ UNCHANGED <<city, state, location, calls, avars, cvars, xvars>>

\* the request of line 135 completes
ResumeC(out) ==
    /\ pc = "awaitC"
    /\ outcome' = [outcome EXCEPT ![ReqC] = out]
    /\ Complete("C", _get_open_meteo_data(city, state, out))
    /\ UNCHANGED <<city, state, location, calls, avars, cvars, xvars>>

\* the caller has the value; nothing of the call is kept
Returned ==
    /\ pc = "done"
    /\ pc' = "idle"
    /\ city' = ""
    /\ state' = ""
    /\ location' = ""
    /\ requests' = <<>>
    /\ inflight' = {}
    /\ attempts' = <<>>
    /\ status' = [p \in Providers |-> "none"]
    /\ outcome' = [r \in Reqs |-> NoOutcome]
    /\ result' = NoResult
    /\ raised' = FALSE
    /\ calls' = calls + 1

Return ==
    /\ Returned
    /\ UNCHANGED <<avars, cvars, xvars>>

Next ==
    \/ \E c \in Cities, s \in States, clientOK \in BOOLEAN : Call(c, s, clientOK)
    \/ \E out \in Outcomes(FlatBodies) : ResumeA(out)
    \/ \E out \in Outcomes(FlatBodies) : ResumeBcur(out)
    \/ \E out \in Outcomes(ForecastBodies) : ResumeBfc(out)
    \/ \E out \in Outcomes(MeteoBodies) : ResumeC(out)
    \/ Return

Spec == Init /\ [][Next]_vars

\* every request that was sent completes, fails or times out: the client
\* of line 22 is made with httpx's default timeout, which bounds each of the
\* requests of lines 65, 85, 86 and 135
Fairness ==
    /\ WF_vars(\E out \in Outcomes(FlatBodies) : ResumeA(out))
    /\ WF_vars(\E out \in Outcomes(FlatBodies) : ResumeBcur(out))
    /\ WF_vars(\E out \in Outcomes(ForecastBodies) : ResumeBfc(out))
    /\ WF_vars(\E out \in Outcomes(MeteoBodies) : ResumeC(out))

SpecFair == Spec /\ Fairness

\* the calls of Spec, and calls whose arguments are not the str the
\* signature asks for
----------------------------------------------------------------------------
(* Calls of get_irrigation_recommendation on weather values of every shape *)

\* an entry left out of a dict
Absent == -88888
AbsentObj == [k \in {"<absent>"} |-> 0]

\* temp and humidity: left out, None, or a number (tenths)
TempChoices == {Absent, NoneNum, 300, 350, 360}
HumidityChoices == {Absent, NoneNum, 390, 400, 600}
\* rain: left out, None, {}, or {"1h": None or a number}
RainChoices == {AbsentObj, NoneObj, EmptyDict}
                 \cup {[k \in {"1h"} |-> v] : v \in {NoneNum, 0, 50, 100}}

Entry(k, v) == IF v = Absent THEN EmptyDict ELSE [x \in {k} |-> v]
MkCurrent(t, h, r) ==
    Entry("temp", t) @@ Entry("humidity", h)
        @@ (IF r = AbsentObj THEN EmptyDict ELSE [x \in {"rain"} |-> r])
Currents == {MkCurrent(t, h, r) : t \in TempChoices, h \in HumidityChoices, r \in RainChoices}

\* the weather values: None, a value without current (the error value of
\* get_weather_data), a value whose current is None, and values in the
\* shapes of _get_imd_data and _get_weather_union_data
WeatherValues ==
    {NoneObj, ErrorResult("ClientInitError", "Delhi"),
     [current |-> NoneObj, location |-> "Delhi", source |-> "imd_official"]}
        \cup {[current |-> cur, forecast |-> EmptyJson, location |-> "Delhi",
              source |-> "imd_official"] : cur \in Currents}
        \cup {[current |-> cur, location |-> "PUNE, ", source |-> "weather_union"] :
              cur \in Currents}

\* "rice" in test_server.py, "general" in get_weather_recommendations
Crops == {"rice", "general"}

\* what the result may depend on: weather_data.current
SignalsOf(wd) == IF wd = NoneObj THEN NoneObj ELSE GetD(wd, "current", EmptyDict)

\* get_irrigation_recommendation is called
Ask(wd, cr) ==
    /\ apc = "idle"
    /\ weather_data' = wd
    /\ crop' = cr
    /\ apc' = "called"
    /\ advice' = NoAdvice
    /\ advice_exc' = "none"
    /\ UNCHANGED <<earlier, rvars, cvars, xvars>>

\* lines 178-196: the call runs and returns or raises
Advise ==
    /\ apc = "called"
    /\ LET r == get_irrigation_recommendation(weather_data, crop) IN
       /\ advice' = IF r.exc = "none" THEN r.val ELSE NoAdvice
       /\ advice_exc' = r.exc
    /\ apc' = "advised"
    /\ UNCHANGED <<weather_data, crop, earlier, rvars, cvars, xvars>>

\* the call is over: the caller holds the string, the arguments are gone
Drop ==
    /\ apc = "advised"
    /\ apc' = "idle"
    /\ weather_data' = NoneObj
    /\ crop' = ""
    /\ UNCHANGED <<advice, advice_exc, earlier, rvars, cvars, xvars>>

\* the call is over, and it is kept for comparison with later calls
Remember ==
    /\ apc = "advised"
    /\ apc' = "idle"
    /\ earlier' = [set |-> TRUE, key |-> SignalsOf(weather_data), crop |-> crop,
                   advice |-> advice, exc |-> advice_exc]
    /\ weather_data' = NoneObj
    /\ crop' = ""
    /\ UNCHANGED <<advice, advice_exc, rvars, cvars, xvars>>

NextAdvice ==
    \/ \E wd \in WeatherValues, cr \in Crops : Ask(wd, cr)
    \/ Advise
    \/ Drop

SpecAdvice == Init /\ [][NextAdvice]_vars

\* the weather values of the comparisons of two calls: fewer numbers, the
\* same shapes
PairCurrents ==
    {MkCurrent(t, h, r) : t \in {Absent, NoneNum, 350, 360},
                          h \in {Absent, NoneNum, 390, 600},
                          r \in {AbsentObj, NoneObj, [k \in {"1h"} |-> 0], [k \in {"1h"} |-> 100]}}
PairValues == {wd \in WeatherValues : SignalsOf(wd) \in PairCurrents \cup {NoneObj, EmptyDict}}

NextAdvicePairs ==
    \/ \E wd \in PairValues, cr \in Crops : Ask(wd, cr)
    \/ Advise
    \/ Drop
    \/ Remember

SpecAdvicePairs == Init /\ [][NextAdvicePairs]_vars

----------------------------------------------------------------------------
(* The get_weather_recommendations tool (src/mcp_server.py, lines 211-264) *)

\* the variables a tool call leaves alone
tool_rest == <<avars, cvars, ping, planting, farming, auth, market>>

\* what client.chat.completions.create does: it returns a completion or
\* raises
LLMOutcomes == {"ok", "APIError"}
Recommendations == "<response.choices[0].message.content>"
Now == "<datetime.now().isoformat()>"
\* an exception that came out of get_weather_data
Escaped == "UnboundLocalError"

\* as if the error value of get_weather_data were not looked at
HasError_unchecked(wd) == FALSE

\* line 221
HasError(wd) == "error" \in DOMAIN wd

\* lines 263-264
ToolExcept(t, e) ==
    IF except_Exception(e)
    THEN [t EXCEPT !.pc = "done", !.response = [error |-> e, success |-> FALSE]]
    ELSE [t EXCEPT !.pc = "done", !.raised = TRUE]

\* lines 253-261
ToolResponse(t) ==
    IF "current" \notin DOMAIN t.weather_data THEN ToolExcept(t, "KeyError")
    ELSE [t EXCEPT !.pc = "done",
                   !.response =
                       [location |-> t.request.city \o ", " \o Fmt(t.request.state),
                        weather_data |-> t.weather_data.current,
                        forecast |-> GetD(t.weather_data, "forecast", EmptyDict),
                        irrigation_recommendation |-> t.irrigation_rec,
                        detailed_recommendations |-> Recommendations,
                        timestamp |-> Now,
                        success |-> TRUE]]

\* lines 221-245, with the value wd of the resolve call: up to the return
\* of line 222 or to the call of the LLM
ToolAfterResolve(t, wd) ==
    LET u == [t EXCEPT !.weather_data = wd] IN
    IF HasError(wd)
    THEN [u EXCEPT !.pc = "done", !.response = [error |-> wd.error, success |-> FALSE]]
    ELSE LET r == get_irrigation_recommendation(
                      wd, IF TruthyStr(t.request.crop) THEN t.request.crop ELSE "general")
         IN IF r.exc # "none" THEN ToolExcept([u EXCEPT !.advised = TRUE], r.exc)
            ELSE [u EXCEPT !.pc = "llm", !.advised = TRUE, !.irrigation_rec = r.val]

\* lines 217-219: the tool is called and calls get_weather_data
ToolCall(c, s, cr, clientOK) ==
    /\ tool.pc = "idle"
    /\ Called(c, s, clientOK)
    /\ tool' = [ToolInit EXCEPT !.pc = "resolving",
                                !.request = [city |-> c, state |-> s, crop |-> cr]]
    /\ UNCHANGED tool_rest

\* line 219: the awaited call returns its value, or raises
ToolResume ==
    /\ tool.pc = "resolving"
    /\ Returned
    /\ tool' = IF raised THEN ToolExcept(tool, Escaped) ELSE ToolAfterResolve(tool, result)
    /\ UNCHANGED tool_rest

\* lines 245-261: the LLM call returns or raises
ToolLLM(out) ==
    /\ tool.pc = "llm"
    /\ LET t == [tool EXCEPT !.llm_calls = @ + 1, !.llm = out] IN
       tool' = IF out = "ok" THEN ToolResponse(t) ELSE ToolExcept(t, out)
    /\ UNCHANGED <<rvars, tool_rest>>

\* the tool's caller has the response
ToolReturn ==
    /\ tool.pc = "done"
    /\ tool' = ToolInit
    /\ UNCHANGED <<rvars, tool_rest>>

\* the requests of the tool's callers and the answers of the providers
ToolCities == {"Delhi", "Ludhiana"}
ToolStates == {"Punjab", NoneStr}
ToolCrops == {"rice", NoneStr}
\* Weather Union payloads with each of temperature, humidity and rainfall
\* present or left out
ToolValsOf(k) == CASE k = "temperature" -> {360}
                   [] k = "humidity" -> {390, 700}
                   [] OTHER -> {100}
ToolKeys == {"temperature", "humidity", "rainfall"}
ToolDicts ==
    UNION {{d \in [S -> {360, 390, 700, 100}] : \A k \in S : d[k] \in ToolValsOf(k)} :
              S \in SUBSET ToolKeys}
ToolAnswers(r) ==
    CASE r = ReqA -> {Threw("TimeoutException"), Resp(500, EmptyJson)}
                        \cup {Resp(200, Body("dict", "absent", "absent", d)) : d \in ToolDicts}
      [] r = ReqBcur -> {Resp(500, Malformed), Resp(200, Body("dict", "absent", "absent", [k \in {"humidity"} |-> 700]))}
      [] r = ReqBfc -> {Threw("ConnectError"), Resp(200, EmptyJson)}
      [] OTHER -> {Resp(200, JsonList),
                   Resp(200, Body("dict", "dict", "present", [k \in {"temperature_2m"} |-> 320])),
                   Resp(200, Body("dict", "dict", "present", [k \in {"relative_humidity_2m"} |-> 500]))}

NextTool ==
    \/ \E c \in ToolCities, s \in ToolStates, cr \in ToolCrops, clientOK \in BOOLEAN :
          ToolCall(c, s, cr, clientOK)
    \/ \E out \in ToolAnswers(ReqA) : ResumeA(out)
    \/ \E out \in ToolAnswers(ReqBcur) : ResumeBcur(out)
    \/ \E out \in ToolAnswers(ReqBfc) : ResumeBfc(out)
    \/ \E out \in ToolAnswers(ReqC) : ResumeC(out)
    \/ ToolResume
    \/ \E out \in LLMOutcomes : ToolLLM(out)
    \/ ToolReturn

SpecTool == Init /\ [][NextTool]_vars

----------------------------------------------------------------------------
(* calculate_planting_schedule (src/mcp_server.py, lines 266-343) *)

\* src/crop_database.py, lines 5-72
INDIAN_CROPS ==
    [c \in {"rice", "wheat", "cotton", "sugarcane", "tomato", "onion"} |->
        CASE c = "rice" ->
                [seasons |-> <<"kharif">>, planting_months |-> <<6, 7, 8>>,
                 harvesting_months |-> <<10, 11, 12>>,
                 suitable_states |-> {"West Bengal", "Punjab", "Uttar Pradesh", "Andhra Pradesh", "Bihar"}]
          [] c = "wheat" ->
                [seasons |-> <<"rabi">>, planting_months |-> <<11, 12, 1>>,
                 harvesting_months |-> <<3, 4, 5>>,
                 suitable_states |-> {"Punjab", "Haryana", "Uttar Pradesh", "Madhya Pradesh"}]
          [] c = "cotton" ->
                [seasons |-> <<"kharif">>, planting_months |-> <<5, 6, 7>>,
                 harvesting_months |-> <<10, 11, 12>>,
                 suitable_states |-> {"Gujarat", "Maharashtra", "Karnataka", "Andhra Pradesh"}]
          [] c = "sugarcane" ->
                [seasons |-> <<"annual">>, planting_months |-> <<2, 3, 10, 11>>,
                 harvesting_months |-> <<12, 1, 2, 3>>,
                 suitable_states |-> {"Uttar Pradesh", "Maharashtra", "Karnataka", "Tamil Nadu"}]
          [] c = "tomato" ->
                [seasons |-> <<"kharif", "rabi">>, planting_months |-> <<6, 7, 11, 12>>,
                 harvesting_months |-> <<9, 10, 2, 3>>,
                 suitable_states |-> {"Karnataka", "Uttar Pradesh", "Bihar", "West Bengal"}]
          [] OTHER ->
                [seasons |-> <<"rabi", "kharif">>, planting_months |-> <<6, 7, 11, 12>>,
                 harvesting_months |-> <<10, 11, 3, 4>>,
                 suitable_states |-> {"Maharashtra", "Karnataka", "Gujarat", "Uttar Pradesh"}]]

\* the variables a call of calculate_planting_schedule leaves alone
planting_rest == <<rvars, avars, cvars, tool, ping, farming, auth, market>>

\* next_planting = None
NoMonth == 0

RECURSIVE FirstFrom(_, _, _)
\* lines 283-288: the loop over planting_months from position k, leaving at
\* the first month that is >= current_month
FirstFrom(planting_months, current_month, k) ==
    IF k > Len(planting_months) THEN NoMonth
    ELSE IF planting_months[k] >= current_month THEN planting_months[k]
    ELSE FirstFrom(planting_months, current_month, k + 1)

\* lines 282-291
next_planting(planting_months, current_month) ==
    LET found == FirstFrom(planting_months, current_month, 1) IN
    IF found = NoMonth THEN planting_months[1] ELSE found

\* lines 296-305: the entry of one crop (the texts of the table left out)
ScheduleEntry(crop_lower, loc, current_month) ==
    LET crop_data == INDIAN_CROPS[crop_lower] IN
    [season |-> crop_data.seasons[1],
     next_planting_month |-> next_planting(crop_data.planting_months, current_month),
     harvesting_months |-> crop_data.harvesting_months,
     suitable_for_location |-> loc \in crop_data.suitable_states]

\* lines 276-305: the loop over request.crops
BuildSchedule(req, current_month) ==
    [name \in {c \in Range(req.crops) : Lower(c) \in DOMAIN INDIAN_CROPS} |->
        ScheduleEntry(Lower(name), req.location, current_month)]

\* lines 272-324: the tool is called in month current_month and gets as far
\* as the call of the LLM
PlantingCall(req, month) ==
    /\ planting.pc = "idle"
    /\ planting.served < MaxCalls
    /\ planting' = [PlantingInit EXCEPT !.pc = "llm", !.request = req,
                                        !.served = planting.served,
                                        !.current_month = month,
                                        !.schedule = BuildSchedule(req, month)]
    /\ UNCHANGED planting_rest

\* lines 324-343: the LLM call returns or raises
PlantingLLM(out) ==
    /\ planting.pc = "llm"
    /\ planting' =
          IF out = "ok"
          THEN [planting EXCEPT !.pc = "done",
                                !.response = [location |-> planting.request.location,
                                              crop_schedule |-> planting.schedule,
                                              ai_recommendations |-> Recommendations,
                                              current_month |-> planting.current_month,
                                              timestamp |-> Now,
                                              success |-> TRUE]]
          ELSE ToolExcept(planting, out)
    /\ UNCHANGED planting_rest

\* the caller has the response
PlantingReturn ==
    /\ planting.pc = "done"
    /\ planting' = [PlantingInit EXCEPT !.served = planting.served + 1]
    /\ UNCHANGED planting_rest

Months == 1..12
PlantingCropNames == DOMAIN INDIAN_CROPS \cup {"Wheat", "mango"}
PlantingCrops == {<<>>} \cup {<<c>> : c \in PlantingCropNames}
                    \cup {<<"rice", c>> : c \in {"wheat", "sugarcane"}}
PlantingRequests == {[location |-> l, crops |-> cs] : l \in {"Punjab", "Kerala"}, cs \in PlantingCrops}

NextPlanting ==
    \/ \E req \in PlantingRequests, month \in Months : PlantingCall(req, month)
    \/ \E out \in LLMOutcomes : PlantingLLM(out)
    \/ PlantingReturn

SpecPlanting == Init /\ [][NextPlanting]_vars

----------------------------------------------------------------------------
(* create_farming_calendar (src/mcp_server.py, lines 478-575) *)

\* the variables a call of create_farming_calendar leaves alone
farming_rest == <<rvars, avars, cvars, tool, ping, planting, auth, market>>

\* the proleptic Gregorian calendar of datetime
IsLeap(y) == y % 4 = 0 /\ (y % 100 # 0 \/ y % 400 = 0)
DaysInMonth(y, m) ==
    IF m = 2 THEN (IF IsLeap(y) THEN 29 ELSE 28)
    ELSE IF m \in {4, 6, 9, 11} THEN 30 ELSE 31

RECURSIVE AddDays(_, _)
\* date + timedelta(days=n)
AddDays(date, n) ==
    LET left == DaysInMonth(date.year, date.month) - date.day IN
    IF n <= left THEN [date EXCEPT !.day = @ + n]
    ELSE AddDays([year |-> IF date.month = 12 THEN date.year + 1 ELSE date.year,
                  month |-> IF date.month = 12 THEN 1 ELSE date.month + 1,
                  day |-> 1],
                 n - left - 1)

\* target_date.strftime("%B")
MonthName(m) ==
    <<"January", "February", "March", "April", "May", "June", "July", "August",
      "September", "October", "November", "December">>[m]

RECURSIVE CropActivities(_, _, _)
\* lines 497-518: the activities of the crops from position k on, in month
CropActivities(crops, k, month) ==
    IF k > Len(crops) THEN <<>>
    ELSE LET name == crops[k]
             known == Lower(name) \in DOMAIN INDIAN_CROPS
             sow == IF known /\ month \in Range(INDIAN_CROPS[Lower(name)].planting_months)
                    THEN <<[activity |-> "Planting/Sowing", crop |-> name]>> ELSE <<>>
             reap == IF known /\ month \in Range(INDIAN_CROPS[Lower(name)].harvesting_months)
                     THEN <<[activity |-> "Harvesting", crop |-> name]>> ELSE <<>>
         IN sow \o reap \o CropActivities(crops, k + 1, month)

\* lines 521-532
SeasonalActivities(month) ==
    IF month \in {6, 7, 8}
    THEN <<[activity |-> "Monsoon Preparation", crop |-> "All crops"]>>
    ELSE IF month \in {10, 11, 12}
    THEN <<[activity |-> "Rabi Preparation", crop |-> "Wheat, Mustard, Gram"]>>
    ELSE <<>>

\* line 537
Season(month) ==
    IF month \in {6, 7, 8, 9} THEN "Kharif"
    ELSE IF month \in {10, 11, 12, 1, 2, 3} THEN "Rabi" ELSE "Zaid"

\* lines 534-538
CalendarEntry(crops, month) ==
    [month |-> month,
     activities |-> CropActivities(crops, 1, month) \o SeasonalActivities(month),
     season |-> Season(month)]

\* line 490
target_date(current_date, month_offset) == AddDays(current_date, 30 * month_offset)

\* the offsets of the loop of line 489
Offsets == 12

RECURSIVE FillCalendar(_, _, _, _)
\* lines 489-538: the iterations from month_offset on; an assignment to a
\* key the dict already has replaces its value
FillCalendar(crops, current_date, month_offset, calendar_data) ==
    IF month_offset >= Offsets THEN calendar_data
    ELSE LET month == target_date(current_date, month_offset).month IN
         FillCalendar(crops, current_date, month_offset + 1,
                      [n \in {MonthName(month)} |-> CalendarEntry(crops, month)] @@ calendar_data)

\* lines 485-556: the tool is called on the day current_date and gets as
\* far as the call of the LLM
FarmingCall(crops, current_date) ==
    /\ farming.pc = "idle"
    /\ farming.served < MaxCalls
    /\ farming' = [FarmingInit EXCEPT
                      !.pc = "llm", !.crops = crops, !.current_date = current_date,
                      !.served = farming.served,
                      !.months = [k \in 1..Offsets |-> target_date(current_date, k - 1).month],
                      !.calendar_data = FillCalendar(crops, current_date, 0, EmptyDict)]
    /\ UNCHANGED farming_rest

\* lines 556-575: the LLM call returns or raises
FarmingLLM(out) ==
    /\ farming.pc = "llm"
    /\ farming' =
          IF out = "ok"
          THEN [farming EXCEPT !.pc = "done",
                               !.response = [crops |-> farming.crops,
                                             calendar |-> farming.calendar_data,
                                             ai_insights |-> Recommendations,
                                             created_date |-> farming.current_date,
                                             success |-> TRUE]]
          ELSE ToolExcept(farming, out)
    /\ UNCHANGED farming_rest

\* the caller has the response
FarmingReturn ==
    /\ farming.pc = "done"
    /\ farming' = [FarmingInit EXCEPT !.served = farming.served + 1]
    /\ UNCHANGED farming_rest

\* the days the tool is called on: every day of a year before a leap year,
\* of a leap year and of the year after
Years == {2023, 2024, 2025}
Dates == {dt \in [year : Years, month : Months, day : 1..31] :
             dt.day <= DaysInMonth(dt.year, dt.month)}
FarmingCrops == {<<>>, <<"rice", "wheat">>}

NextFarming ==
    \/ \E crops \in FarmingCrops, current_date \in Dates : FarmingCall(crops, current_date)
    \/ \E out \in LLMOutcomes : FarmingLLM(out)
    \/ FarmingReturn

SpecFarming == Init /\ [][NextFarming]_vars

----------------------------------------------------------------------------
(* The authentication middleware (src/mcp_server.py, lines 577-588) *)

\* the variables a request to the server leaves alone
auth_rest == <<rvars, avars, cvars, tool, ping, planting, farming, market>>

\* a header value is the sequence of its characters
BearerPrefix == <<"B", "e", "a", "r", "e", "r", " ">>

\* str.startswith
startswith(h, prefix) == Len(h) >= Len(prefix) /\ SubSeq(h, 1, Len(prefix)) = prefix

\* auth_header[7:]
Slice7(h) == SubSeq(h, 8, Len(h))

\* as if the token were taken without being verified
auth_middleware_unverified(auth_header, verdict) ==
    IF startswith(auth_header, BearerPrefix)
    THEN [next |-> "call_next", token |-> Slice7(auth_header), verified |-> FALSE]
    ELSE [next |-> "401", token |-> <<>>, verified |-> FALSE]

\* lines 581-588, with the answer verdict of verify_bearer_token for the
\* token: go on to call_next, or raise HTTPException(401)
auth_middleware(auth_header, verdict) ==
    IF startswith(auth_header, BearerPrefix)
    THEN [next |-> IF verdict THEN "call_next" ELSE "401",
          token |-> Slice7(auth_header), verified |-> TRUE]
    ELSE [next |-> "401", token |-> <<>>, verified |-> FALSE]

\* lines 579-588: a request arrives; the middleware runs as far as the await
\* of call_next or the raise
AuthRequest(method, auth_header, verdict) ==
    /\ auth.pc = "idle"
    /\ auth.served < MaxCalls
    /\ LET m == auth_middleware(auth_header, verdict) IN
       auth' = [AuthInit EXCEPT
                   !.served = auth.served, !.method = method, !.auth_header = auth_header,
                   !.token = m.token, !.verified = m.verified,
                   !.verdict = m.verified /\ verdict,
                   !.pc = IF m.next = "call_next" THEN "call_next" ELSE "done",
                   !.outcome = IF m.next = "call_next" THEN "none" ELSE "401"]
    /\ UNCHANGED auth_rest

\* line 585: the handler behind call_next runs and returns or raises; the
\* middleware passes that on
AuthCallNext(out) ==
    /\ auth.pc = "call_next"
    /\ auth' = [auth EXCEPT !.pc = "done", !.ran = TRUE, !.outcome = out]
    /\ UNCHANGED auth_rest

\* the client has its answer
AuthReturn ==
    /\ auth.pc = "done"
    /\ auth' = [AuthInit EXCEPT !.served = auth.served + 1]
    /\ UNCHANGED auth_rest

\* the requests: no Authorization header (the default ""), the header of
\* src/check_endpoints.py, other tokens, other schemes and spellings
AuthHeaders ==
    {<<>>,
     <<"B", "e", "a", "r", "e", "r", " ", "p", "u", "c", "h", "2", "0", "2", "4">>,
     <<"B", "e", "a", "r", "e", "r", " ", "w", "r", "o", "n", "g">>,
     <<"B", "e", "a", "r", "e", "r", " ">>,
     <<"B", "e", "a", "r", "e", "r">>,
     <<"b", "e", "a", "r", "e", "r", " ", "p", "u", "c", "h", "2", "0", "2", "4">>,
     <<"B", "a", "s", "i", "c", " ", "p", "u", "c", "h", "2", "0", "2", "4">>,
     <<"p", "u", "c", "h", "2", "0", "2", "4">>,
     <<" ", "B", "e", "a", "r", "e", "r", " ", "p", "u", "c", "h", "2", "0", "2", "4">>}
AuthMethods == {"tools/list", "tools/call get_weather_recommendations",
                "tools/call health_check", "tools/call get_market_analysis"}
HandlerOutcomes == {"response", "handler error"}

NextAuth ==
    \/ \E method \in AuthMethods, h \in AuthHeaders, verdict \in BOOLEAN :
          AuthRequest(method, h, verdict)
    \/ \E out \in HandlerOutcomes : AuthCallNext(out)
    \/ AuthReturn

SpecAuth == Init /\ [][NextAuth]_vars

----------------------------------------------------------------------------
(* The keep-alive thread (src/app.py, lines 30-79) *)

\* the variables the keep-alive thread leaves alone
ping_rest == <<rvars, avars, cvars, tool, planting, farming, auth, market>>

\* line 36
max_failures == 3
\* line 43
endpoints == <<"/health", "/", "">>

\* what requests.get(url, timeout=30) of line 49 does: a response with a
\* status code, a RequestException (the timeout is one), or an exception of
\* another class
GetOutcomes == {"200", "202", "404", "503", "RequestException", "OSError"}

\* line 51
Alive(out) == out \in {"200", "202"}

\* as if the counter were never set back when the alarm is printed
after_loop_no_reset(p) ==
    LET done == [p EXCEPT !.pc = "sleep", !.endpoint = 0] IN
    IF ~p.success
    THEN [done EXCEPT !.consecutive_failures = @ + 1,
                      !.alarm = p.consecutive_failures + 1 >= max_failures,
                      !.history = Append(@, "failed")]
    ELSE [done EXCEPT !.alarm = FALSE, !.history = Append(@, "ok")]

\* lines 63-69, and back to the sleep of line 40
after_loop(p) ==
    LET done == [p EXCEPT !.pc = "sleep", !.endpoint = 0] IN
    IF ~p.success
    THEN LET n == p.consecutive_failures + 1 IN
         [done EXCEPT !.consecutive_failures = IF n >= max_failures THEN 0 ELSE n,
                      !.alarm = n >= max_failures,
                      !.history = Append(@, "failed")]
    ELSE [done EXCEPT !.alarm = FALSE, !.history = Append(@, "ok")]

\* as if the inner handler of lines 59-61 were missing and the exception
\* ended the thread
after_get_uncaught(p, out) ==
    LET q == [p EXCEPT !.tried = Append(@, out)] IN
    IF out = "RequestException" THEN [q EXCEPT !.pc = "dead"]
    ELSE IF out = "OSError"
    THEN [q EXCEPT !.pc = "except", !.alarm = FALSE, !.history = Append(@, "aborted")]
    ELSE IF Alive(out)
    THEN after_loop([q EXCEPT !.consecutive_failures = 0, !.success = TRUE])
    ELSE IF p.endpoint < Len(endpoints) THEN [q EXCEPT !.endpoint = @ + 1]
    ELSE after_loop(q)

\* lines 46-73, from the completion out of the request to endpoint
\* p.endpoint up to the next request or the next sleep
after_get(p, out) ==
    LET q == [p EXCEPT !.tried = Append(@, out)] IN
    IF out = "OSError"
    THEN \* lines 71-73: not a RequestException, so the outer handler
         [q EXCEPT !.pc = "except", !.alarm = FALSE, !.history = Append(@, "aborted")]
    ELSE IF out # "RequestException" /\ Alive(out)
    THEN \* lines 52-55
         after_loop([q EXCEPT !.consecutive_failures = 0, !.success = TRUE])
    ELSE \* lines 57, 59-61: the next endpoint, or the loop is over
         IF p.endpoint < Len(endpoints) THEN [q EXCEPT !.endpoint = @ + 1]
         ELSE after_loop(q)

\* lines 76-77 and 35-40: the thread starts and sleeps
PingStart ==
    /\ ping.pc = "idle"
    /\ ping' = [PingInit EXCEPT !.pc = "sleep"]
    /\ UNCHANGED ping_rest

\* lines 40-49: the sleep is over, a round begins with the first endpoint
PingWake ==
    /\ ping.pc = "sleep"
    /\ Len(ping.history) < MaxRounds
    /\ ping' = [ping EXCEPT !.pc = "get", !.success = FALSE, !.endpoint = 1, !.tried = <<>>]
    /\ UNCHANGED ping_rest

\* line 49: the request completes
PingGet(out) ==
    /\ ping.pc = "get"
    /\ ping' = after_get(ping, out)
    /\ UNCHANGED ping_rest

\* line 73: the sleep of the outer handler is over, and the loop goes on
PingExcept ==
    /\ ping.pc = "except"
    /\ ping' = [ping EXCEPT !.pc = "sleep", !.endpoint = 0]
    /\ UNCHANGED ping_rest

NextPing ==
    \/ PingStart
    \/ PingWake
    \/ \E out \in GetOutcomes : PingGet(out)
    \/ PingExcept

SpecPing == Init /\ [][NextPing]_vars

\* time.sleep returns, and requests.get with timeout=30 returns or raises
PingFairness ==
    /\ WF_vars(PingStart)
    /\ WF_vars(PingWake)
    /\ WF_vars(\E out \in GetOutcomes : PingGet(out))
    /\ WF_vars(PingExcept)

SpecPingFair == SpecPing /\ PingFairness

----------------------------------------------------------------------------
(* MarketService (src/market_service.py) and the get_market_analysis tool *)
(* (src/mcp_server.py, lines 345-400).  area_acres is in tenths of an     *)
(* acre, investment in rupees; expected_yield_quintals, gross_income and   *)
(* net_profit are in tenths, profit_margin_percent in hundredths.          *)

\* the variables a call of get_market_analysis leaves alone
market_rest == <<rvars, avars, cvars, tool, ping, planting, farming, auth>>

\* market_service.py, lines 15-22 (price_per_quintal of mock_prices)
mock_prices ==
    [c \in {"rice", "wheat", "cotton", "sugarcane", "tomato", "onion"} |->
        [price_per_quintal |->
            CASE c = "rice" -> 2100 [] c = "wheat" -> 2050 [] c = "cotton" -> 6800
              [] c = "sugarcane" -> 350 [] c = "tomato" -> 1500 [] OTHER -> 1200,
         trend |->
            CASE c = "rice" -> "stable" [] c = "wheat" -> "rising" [] c = "cotton" -> "falling"
              [] c = "sugarcane" -> "stable" [] c = "tomato" -> "volatile" [] OTHER -> "rising"]]

\* lines 11-36
get_market_prices(crop_name, st) ==
    LET crop_lower == Lower(crop_name) IN
    IF crop_lower \in DOMAIN mock_prices
    THEN [crop |-> crop_name, data |-> mock_prices[crop_lower], source |-> "Market Intelligence"]
    ELSE [error |-> "Price data not available for " \o crop_name]

\* lines 42-49
avg_yields ==
    [c \in {"rice", "wheat", "cotton", "sugarcane", "tomato", "onion"} |->
        CASE c = "rice" -> 25 [] c = "wheat" -> 20 [] c = "cotton" -> 8
          [] c = "sugarcane" -> 300 [] c = "tomato" -> 150 [] OTHER -> 120]

\* lines 61-64
price_table ==
    [c \in {"rice", "wheat", "cotton", "sugarcane", "tomato", "onion"} |->
        CASE c = "rice" -> 2100 [] c = "wheat" -> 2050 [] c = "cotton" -> 6800
          [] c = "sugarcane" -> 350 [] c = "tomato" -> 1500 [] OTHER -> 1200]

\* a / b rounded to the nearest integer, ties to the even one (b > 0)
RoundDiv(a, b) ==
    LET q == a \div b
        r == a % b
    IN IF 2 * r < b THEN q
       ELSE IF 2 * r > b THEN q + 1
       ELSE IF q % 2 = 0 THEN q ELSE q + 1

\* round((net_profit / investment) * 100, 2) in hundredths, net_profit
\* being in tenths and investment > 0: net_profit * 1000 / investment,
\* rounded, computed from the whole part and the rest of the division
rounded_margin(net_profit, investment) ==
    (net_profit \div investment) * 1000
        + RoundDiv((net_profit % investment) * 1000, investment)

\* as if the margin were computed for every investment but 0
profit_margin_nonzero(net_profit, investment) ==
    IF investment > 0 THEN rounded_margin(net_profit, investment)
    ELSE IF investment < 0 THEN rounded_margin(-net_profit, -investment)
    ELSE 0

\* lines 68 and 78: round(profit_margin, 2) with profit_margin =
\* (net_profit / investment) * 100 if investment > 0 else 0
profit_margin(net_profit, investment) ==
    IF investment > 0 THEN rounded_margin(net_profit, investment) ELSE 0

\* lines 42-80: the body of the try block
calculate_try(crop_name, area_acres, investment) ==
    LET crop_lower == Lower(crop_name) IN
    IF crop_lower \notin DOMAIN avg_yields THEN Ret([error |-> "Crop data not available"])
    ELSE IF area_acres = NoneNum THEN Raise("TypeError")
    ELSE LET yield_per_acre == avg_yields[crop_lower]
             total_yield == yield_per_acre * area_acres
             price_per_quintal == GetD(price_table, crop_lower, 1000)
             gross_income == total_yield * price_per_quintal
         IN IF investment = NoneNum THEN Raise("TypeError")
            ELSE LET net_profit == gross_income - 10 * investment IN
                 Ret([crop |-> crop_name,
                      area_acres |-> area_acres,
                      expected_yield_quintals |-> total_yield,
                      price_per_quintal |-> price_per_quintal,
                      gross_income |-> gross_income,
                      investment |-> investment,
                      net_profit |-> net_profit,
                      profit_margin_percent |-> profit_margin(net_profit, investment),
                      roi_months |-> IF crop_lower \in {"rice", "wheat"} THEN 6 ELSE 4])

\* lines 38-83
calculate_profitability(crop_name, area_acres, investment) ==
    LET r == calculate_try(crop_name, area_acres, investment) IN
    IF r.exc = "none" THEN r
    ELSE IF except_Exception(r.exc) THEN Ret([error |-> r.exc])
    ELSE r

\* mcp_server.py, lines 352-383: the tool is called and gets as far as the
\* call of the LLM
MarketCall(req) ==
    /\ market.pc = "idle"
    /\ market.served < MaxCalls
    /\ LET p == calculate_profitability(req.crop, req.area_acres, req.investment)
           m == [MarketInit EXCEPT !.served = market.served, !.request = req,
                                   !.market_data = get_market_prices(req.crop, req.state)]
       IN market' = IF p.exc = "none" THEN [m EXCEPT !.pc = "llm", !.profitability = p.val]
                    ELSE ToolExcept(m, p.exc)
    /\ UNCHANGED market_rest

\* lines 383-400: the LLM call returns or raises
MarketLLM(out) ==
    /\ market.pc = "llm"
    /\ market' =
          IF out = "ok"
          THEN [market EXCEPT !.pc = "done",
                              !.response = [crop |-> market.request.crop,
                                            location |-> IF TruthyStr(market.request.state)
                                                         THEN market.request.state ELSE "India",
                                            current_market_data |-> market.market_data,
                                            profitability_analysis |-> market.profitability,
                                            market_insights |-> Recommendations,
                                            timestamp |-> Now,
                                            success |-> TRUE]]
          ELSE ToolExcept(market, out)
    /\ UNCHANGED market_rest

\* the caller has the response
MarketReturn ==
    /\ market.pc = "done"
    /\ market' = [MarketInit EXCEPT !.served = market.served + 1]
    /\ UNCHANGED market_rest

\* the requests: crops of the tables in either case and one outside them;
\* areas of 0, 1.0, 2.0 and 2.5 acres and none; investments that are
\* negative, 0, positive (50000 is the one of src/test_server.py) and none
MarketCrops == {"rice", "wheat", "cotton", "sugarcane", "tomato", "Onion", "mango"}
AreaChoices == {0, 10, 20, 25, NoneNum}
InvestmentChoices == {-1000, 0, 30000, 50000, 90000, NoneNum}
MarketRequests ==
    [crop : MarketCrops, state : {"Punjab"}, area_acres : AreaChoices,
     investment : InvestmentChoices]

NextMarket ==
    \/ \E req \in MarketRequests : MarketCall(req)
    \/ \E out \in LLMOutcomes : MarketLLM(out)
    \/ MarketReturn

SpecMarket == Init /\ [][NextMarket]_vars

----------------------------------------------------------------------------
(* Concurrent calls of get_weather_data on the shared instance *)

\* as if one client, made once, were kept on the instance (self.client)
ClientOf_shared(i) == 1

\* line 22: every call makes its own client, and a response comes back on
\* the client that sent the request
ClientOf(i) == i

\* lines 62, 85, 86, 126: the address of a request, from the attributes
UrlOf(svc, r) ==
    CASE r = ReqA -> svc.weather_union_url \o "/current"
      [] r = ReqBcur -> svc.imd_current_url
      [] r = ReqBfc -> svc.imd_forecast_url
      [] OTHER -> svc.open_meteo_url \o "/forecast"

RECURSIVE Enter(_, _)
\* Start on the locals f of one call: enter the try block of provider p (or
\* the mock return) and run to its first await or to the return
Enter(p, f) ==
    IF p = "A" THEN [f EXCEPT !.pc = "awaitA", !.requests = Append(@, ReqA)]
    ELSE IF p = "B" THEN [f EXCEPT !.pc = "awaitBcur", !.requests = Append(@, ReqBcur)]
    ELSE IF p = "C"
    THEN IF HasCoords(f.city)
         THEN [f EXCEPT !.pc = "awaitC", !.requests = Append(@, ReqC)]
         ELSE Enter(Following("C"), f)
    ELSE [f EXCEPT !.pc = "done", !.result = MockResult(f.city, f.location)]

\* Propagate on the locals f of one call
Escape(e, f) ==
    IF except_Exception(e) /\ f.location # Unbound
    THEN [f EXCEPT !.pc = "done", !.result = ErrorResult(e, f.location)]
    ELSE [f EXCEPT !.pc = "done", !.raised = TRUE]

\* Complete on the locals f of one call
Settle(p, r, f) ==
    IF Accepted(r) THEN [f EXCEPT !.pc = "done", !.result = r.val]
    ELSE IF r.exc # "none" /\ ~except_Exception(r.exc) THEN Escape(r.exc, f)
    ELSE Enter(Following(p), f)

\* lines 19-25 on fresh locals
FirstStretch(c, s, clientOK) ==
    LET f == [IdleFrame EXCEPT !.city = c, !.state = s,
                               !.location = IF TruthyStr(s) THEN c \o "," \o s ELSE c]
    IN IF clientOK THEN Enter("A", f) ELSE Escape("ClientInitError", f)

\* the request a call is waiting for
Awaited(f) ==
    CASE f.pc = "awaitA" -> ReqA
      [] f.pc = "awaitBcur" -> ReqBcur
      [] f.pc = "awaitBfc" -> ReqBfc
      [] f.pc = "awaitC" -> ReqC
      [] OTHER -> "none"

\* ResumeA, ResumeBcur, ResumeBfc and ResumeC on the locals f of one call
NextStretch(f, out) ==
    LET g == [f EXCEPT !.outcome[Awaited(f)] = out] IN
    CASE f.pc = "awaitA" -> Settle("A", _get_weather_union_data(f.city, f.state, out), g)
      [] f.pc = "awaitBcur" ->
            IF out.exc # "none" THEN Settle("B", Raise(out.exc), g)
            ELSE [g EXCEPT !.pc = "awaitBfc", !.requests = Append(@, ReqBfc)]
      [] f.pc = "awaitBfc" -> Settle("B", _get_imd_data(f.city, f.outcome[ReqBcur], out), g)
      [] OTHER -> Settle("C", _get_open_meteo_data(f.city, f.state, out), g)

\* the requests the stretch from f to g has sent, as messages of call i
Sends(i, f, g) ==
    {[client |-> ClientOf(i), owner |-> i, req |-> g.requests[k], url |-> UrlOf(service, g.requests[k])] :
        k \in (Len(f.requests) + 1)..Len(g.requests)}

\* what the providers answer in the runs with concurrent calls
OkBody == Body("dict", "absent", "absent", [k \in {"temperature", "humidity"} |-> IF k = "temperature" THEN 360 ELSE 390])
OkMeteo == Body("dict", "dict", "present", [k \in {"temperature_2m"} |-> 320])
Answers(r) ==
    CASE r = ReqA -> {Threw("TimeoutException"), Resp(200, OkBody)}
      [] r = ReqBcur -> {Resp(500, Malformed), Resp(200, OkBody)}
      [] r = ReqBfc -> {Threw("ConnectError"), Resp(200, EmptyJson)}
      [] OTHER -> {Resp(200, JsonList), Resp(200, OkMeteo)}

\* the arguments of the concurrent calls: a city of the table without a
\* state, and a city that is not in the table with one
ConcurrentArgs == {<<"Delhi", "">>, <<"Ludhiana", "Punjab">>}

\* call i starts (lines 19-25)
CCall(i, c, s, clientOK) ==
    /\ frame[i].pc = "idle"
    /\ calls < MaxCalls
    /\ LET g == FirstStretch(c, s, clientOK) IN
       /\ frame' = [frame EXCEPT ![i] = g]
       /\ sent' = sent \cup Sends(i, IdleFrame, g)
    /\ replied' = [replied EXCEPT ![i] = NoOutcomes]
    /\ UNCHANGED <<service, inbox, rvars, avars, xvars>>

\* a provider answers the request m
Respond(m, out) ==
    /\ m \in sent
    /\ sent' = sent \ {m}
    /\ inbox' = inbox \cup {[client |-> m.client, owner |-> m.owner, req |-> m.req, out |-> out]}
    /\ replied' = [replied EXCEPT ![m.owner][m.req] = out]
    /\ UNCHANGED <<service, frame, rvars, avars, xvars>>

\* call i resumes with the response m that came back on its client
CResume(i, m) ==
    /\ m \in inbox
    /\ m.client = ClientOf(i)
    /\ m.req = Awaited(frame[i])
    /\ inbox' = inbox \ {m}
    /\ LET g == NextStretch(frame[i], m.out) IN
       /\ frame' = [frame EXCEPT ![i] = g]
       /\ sent' = sent \cup Sends(i, frame[i], g)
    /\ UNCHANGED <<service, replied, rvars, avars, xvars>>

\* the caller of call i has the value; the locals are gone
CReturn(i) ==
    /\ frame[i].pc = "done"
    /\ frame' = [frame EXCEPT ![i] = IdleFrame]
    /\ replied' = [replied EXCEPT ![i] = NoOutcomes]
    /\ calls' = calls + 1
    /\ UNCHANGED <<pc, city, state, location, requests, inflight, attempts, status,
                   outcome, result, raised>>
    /\ UNCHANGED <<service, sent, inbox, avars, xvars>>

NextConcurrent ==
    \/ \E i \in CallIds, a \in ConcurrentArgs, clientOK \in BOOLEAN :
          CCall(i, a[1], a[2], clientOK)
    \/ \E m \in sent : \E out \in Answers(m.req) : Respond(m, out)
    \/ \E i \in CallIds : \E m \in inbox : CResume(i, m)
    \/ \E i \in CallIds : CReturn(i)

SpecConcurrent == Init /\ [][NextConcurrent]_vars

NextAnyArgs ==
    \/ Next
    \/ \E c \in Cities : CallNoTruthValue(c)

SpecAnyArgs == Init /\ [][NextAnyArgs]_vars

----------------------------------------------------------------------------
(* What the providers did in the current call, read off their outcomes *)

SourceTags == {"weather_union", "imd_official", "open_meteo", "mock_data"}

Completed(r) == outcome[r] # NoOutcome
\* HTTP 200 carrying a JSON object
WellFormed(out) == out.exc = "none" /\ out.status = 200 /\ out.body.json = "dict"
\* a request that ended in an exception, a non-200 status or an unusable body
Faulty(out) == out # NoOutcome /\ ~WellFormed(out)

ASucceeded == WellFormed(outcome[ReqA])
AFailed == Faulty(outcome[ReqA])
\* IMD needs its current payload, and a forecast response that is not a
\* 200 with an undecodable body
BSucceeded ==
    /\ WellFormed(outcome[ReqBcur])
    /\ Completed(ReqBfc)
    /\ outcome[ReqBfc].exc = "none"
    /\ ~(outcome[ReqBfc].status = 200 /\ outcome[ReqBfc].body.json = "malformed")
BFailed ==
    \/ Completed(ReqBcur) /\ outcome[ReqBcur].exc # "none"
    \/ Completed(ReqBfc) /\ ~BSucceeded
CityInTable == Lower(city) \in city_coords
CSucceeded == WellFormed(outcome[ReqC]) /\ outcome[ReqC].body.cur # "null"
CFailed ==
    \/ "C" \in Range(attempts) /\ ~CityInTable
    \/ Completed(ReqC) /\ ~CSucceeded

HasSource(tag) == "source" \in DOMAIN result /\ result.source = tag
Count(seq, x) == Cardinality({i \in DOMAIN seq : seq[i] = x})

----------------------------------------------------------------------------
(* Claims *)

C2_FirstProviderShortCircuits ==
    ASucceeded =>
        /\ requests = <<ReqA>>
        /\ pc = "done"
        /\ HasSource("weather_union")

C2_Witness ==
    /\ pc = "done"
    /\ ASucceeded
    /\ HasSource("weather_union")
    /\ result.current.temp = 360

\* C3: when Weather Union failed and IMD succeeded, the call returns the
\* value tagged imd_official and Open-Meteo is neither attempted nor sent a
\* request.
C3_SecondProviderShortCircuits ==
    AFailed /\ BSucceeded =>
        /\ pc = "done"
        /\ HasSource("imd_official")
        /\ ReqC \notin Range(requests)
        /\ "C" \notin Range(attempts)

C3_Witness ==
    /\ pc = "done"
    /\ outcome[ReqA].status = 500
    /\ outcome[ReqBfc].status = 500
    /\ HasSource("imd_official")

\* C4: when all three providers failed, the call returns the value tagged
\* mock_data whose temp is 28.5 and whose humidity is 75, whatever the city
\* and whatever the way each provider failed.
C4_AllFailGivesMock ==
    AFailed /\ BFailed /\ CFailed =>
        /\ pc = "done"
        /\ HasSource("mock_data")
        /\ result.current.temp = 285
        /\ result.current.humidity = 750

C4_Witness ==
    /\ pc = "done"
    /\ city = "Delhi"
    /\ outcome[ReqA].exc = "ConnectError"
    /\ outcome[ReqBfc].exc = "TimeoutException"
    /\ outcome[ReqC].status = 500
    /\ HasSource("mock_data")

\* C5: for a city whose lower-cased name is not a key of city_coords no
\* request is ever sent to Open-Meteo, and when Weather Union and IMD have
\* failed the call returns mock data.
C5_UnknownCitySkipsOpenMeteo ==
    pc # "idle" /\ ~CityInTable =>
        /\ ReqC \notin Range(requests)
        /\ ~Completed(ReqC)
        /\ AFailed /\ BFailed => pc = "done" /\ HasSource("mock_data")

C5_Witness ==
    /\ pc = "done"
    /\ city = "Ludhiana"
    /\ "C" \in Range(attempts)
    /\ requests = <<ReqA, ReqBcur, ReqBfc>>
    /\ HasSource("mock_data")

\* C6: a fault of one provider attempt, a timeout like any other, never
\* reaches the caller, neither as an exception nor as an error value: all
\* it does is hand over to the next provider, or to the mock data after
\* Open-Meteo.
C6_FaultsAbsorbed ==
    /\ ~raised
    /\ pc = "done" /\ attempts # <<>> => "error" \notin DOMAIN result
    /\ AFailed => Len(attempts) >= 2 /\ attempts[2] = "B"
    /\ BFailed => Len(attempts) >= 3 /\ attempts[3] = "C"
    /\ CFailed => pc = "done" /\ HasSource("mock_data")

C6_Witness ==
    /\ pc = "done"
    /\ outcome[ReqA].exc = "TimeoutException"
    /\ outcome[ReqBcur] = Resp(200, Malformed)
    /\ outcome[ReqBfc].exc = "none"
    /\ outcome[ReqC] = Resp(200, JsonList)
    /\ HasSource("mock_data")

\* the place of a request in the order of the providers
Rank(r) == CASE r = ReqA -> 1
             [] r = ReqBcur -> 2
             [] r = ReqBfc -> 3
             [] OTHER -> 4

\* C7: the requests of a call go out in the order Weather Union, IMD,
\* Open-Meteo, at most one of them in flight at a time, and a provider is
\* sent a request only after every provider before it has failed.
C7_StrictOrderOneAtATime ==
    /\ Cardinality(inflight) <= 1
    /\ \A i, j \in DOMAIN requests : i < j => Rank(requests[i]) < Rank(requests[j])
    /\ \A r \in inflight : r = requests[Len(requests)] /\ ~Completed(r)
    /\ \A r \in {ReqBcur, ReqBfc, ReqC} : r \in Range(requests) => AFailed
    /\ ReqC \in Range(requests) => BFailed

C7_Witness ==
    /\ pc = "awaitC"
    /\ inflight = {ReqC}
    /\ requests = <<ReqA, ReqBcur, ReqBfc, ReqC>>

\* C8: no provider is attempted twice in a call and no request is sent
\* twice, and the step in which a provider fails is the step that starts
\* the next provider's attempt.
C8_NoRetries ==
    /\ \A p \in Providers : Count(attempts, p) <= 1
    /\ \A r \in Reqs : Count(requests, r) <= 1
    /\ status["A"] = "failed" => Len(attempts) >= 2 /\ attempts[2] = "B"
    /\ status["B"] = "failed" => Len(attempts) >= 3 /\ attempts[3] = "C"

C8_Witness ==
    /\ pc = "awaitBcur"
    /\ outcome[ReqA].exc = "ConnectError"
    /\ attempts = <<"A", "B">>
    /\ requests = <<ReqA, ReqBcur>>

\* C9 as stated: a call issues at most three HTTP requests.
C9_AtMostThreeRequests == Len(requests) <= 3

\* C9, amended: a call makes at most three provider attempts and issues at
\* most four HTTP requests: one to Weather Union, two to IMD, one to
\* Open-Meteo.
C9_AtMostFourRequests ==
    /\ Len(attempts) <= 3
    /\ Len(requests) <= 4
    /\ Count(requests, ReqA) <= 1
    /\ Count(requests, ReqBcur) + Count(requests, ReqBfc) <= 2
    /\ Count(requests, ReqC) <= 1

C9_Witness ==
    /\ pc = "done"
    /\ Len(requests) = 4
    /\ Len(attempts) = 3

\* C10 as stated: every returned value, that of the outer handler
\* included, has a current object with the temp and humidity entries.
C10_CurrentAlwaysPresent ==
    pc = "done" =>
        /\ "current" \in DOMAIN result
        /\ {"temp", "humidity"} \subseteq DOMAIN result.current

\* C10, amended: every value returned on the Weather Union, IMD, Open-Meteo
\* and mock paths has a current object with the temp and humidity entries
\* (their values may be None); the value of the outer handler is an error
\* value of exactly the entries error and location, without current.
C10_CurrentPresentUnlessError ==
    pc = "done" =>
        IF "error" \in DOMAIN result
        THEN DOMAIN result = {"error", "location"}
        ELSE /\ "current" \in DOMAIN result
             /\ {"temp", "humidity"} \subseteq DOMAIN result.current

C10_Witness ==
    /\ pc = "done"
    /\ HasSource("open_meteo")
    /\ result.current.temp = NoneNum
    /\ result.current.humidity = NoneNum

\* the temp and humidity entries of the returned current are those of d
CurrentFrom(d, tk, hk) ==
    /\ result.current.temp = Get(d, tk)
    /\ result.current.humidity = Get(d, hk)

\* C11: the source tag of a returned value names where its current data
\* came from: a provider's tag only when that provider's request of this
\* call gave the well-formed payload the current object was built from, and
\* mock_data exactly when every provider attempt of the call failed.
C11_SourceNamesOrigin ==
    pc = "done" =>
        /\ HasSource("weather_union") =>
              /\ ASucceeded
              /\ CurrentFrom(outcome[ReqA].body.d, "temperature", "humidity")
        /\ HasSource("imd_official") =>
              /\ AFailed /\ BSucceeded
              /\ CurrentFrom(outcome[ReqBcur].body.d, "temperature", "humidity")
        /\ HasSource("open_meteo") =>
              /\ AFailed /\ BFailed /\ CSucceeded
              /\ CurrentFrom(IF outcome[ReqC].body.cur = "dict"
                             THEN outcome[ReqC].body.d ELSE EmptyDict,
                             "temperature_2m", "relative_humidity_2m")
        /\ HasSource("mock_data") <=> (AFailed /\ BFailed /\ CFailed)

C11_Witness ==
    /\ pc = "done"
    /\ outcome[ReqA] = Resp(200, JsonList)
    /\ HasSource("imd_official")
    /\ result.current.temp = 360
    /\ result.current.humidity = NoneNum

\* C12: every value returned with a source tag, whichever provider or the
\* mock data it comes from, has the four entries current, forecast,
\* location and source.
C12_CanonicalShape ==
    pc = "done" /\ "source" \in DOMAIN result =>
        {"current", "forecast", "location", "source"} \subseteq DOMAIN result

\* C13: when building the location string fails at the start of the call,
\* the caller gets a value with an error entry, not an exception.
C13_LocationFaultGivesErrorValue ==
    pc = "done" /\ location = Unbound =>
        /\ ~raised
        /\ "error" \in DOMAIN result

----------------------------------------------------------------------------
(* Claims about get_irrigation_recommendation *)

\* the argument holds a current object
HasCurrent ==
    /\ weather_data # NoneObj
    /\ "current" \in DOMAIN weather_data
    /\ weather_data.current # NoneObj
\* entry k of d is there and is a number
IsNum(d, k) == k \in DOMAIN d /\ d[k] # NoneNum
\* current.rain is a dict
HasRainDict ==
    /\ HasCurrent
    /\ "rain" \in DOMAIN weather_data.current
    /\ weather_data.current.rain # NoneObj
\* all three signals are there and are numbers
Numeric ==
    /\ HasCurrent
    /\ IsNum(weather_data.current, "temp")
    /\ IsNum(weather_data.current, "humidity")
    /\ HasRainDict
    /\ IsNum(weather_data.current.rain, "1h")

Temp == weather_data.current.temp
Humidity == weather_data.current.humidity
Rain == weather_data.current.rain["1h"]

\* the decision table of the specification, in tenths, first match wins
DecisionTable(t, h, r) ==
    IF r > 50 THEN MsgRain
    ELSE IF h < 400 /\ t > 350 THEN MsgExtremeHeat
    ELSE IF h < 600 /\ t > 300 THEN MsgHot
    ELSE MsgRegular

\* C14: for numeric temperature, humidity and rainfall the call returns the
\* category of the decision table read in its listed order, first match
\* winning.
C14_DecisionTable ==
    apc = "advised" /\ Numeric =>
        /\ advice_exc = "none"
        /\ advice = DecisionTable(Temp, Humidity, Rain)

C14_Witness ==
    /\ apc = "advised"
    /\ Numeric
    /\ Temp = 360 /\ Humidity = 400 /\ Rain = 50
    /\ advice = MsgHot

\* C15: the thresholds are strict.  With no rain, 36 degrees at 39 percent
\* is extreme heat and 35 degrees at 39 percent is hot weather; 40 percent
\* is not extreme heat, 30 degrees and 60 percent are not hot weather, and
\* 5 mm of rain is not rain enough.
C15_StrictThresholds ==
    apc = "advised" /\ Numeric =>
        /\ Rain = 0 /\ Temp = 360 /\ Humidity = 390 => advice = MsgExtremeHeat
        /\ Rain = 0 /\ Temp = 350 /\ Humidity = 390 => advice = MsgHot
        /\ Rain = 0 /\ Humidity = 400 => advice # MsgExtremeHeat
        /\ Rain = 0 /\ Temp = 300 => advice \notin {MsgExtremeHeat, MsgHot}
        /\ Rain = 0 /\ Humidity = 600 => advice \notin {MsgExtremeHeat, MsgHot}
        /\ Rain = 50 => advice # MsgRain

C15_Witness ==
    /\ apc = "advised"
    /\ Numeric
    /\ Temp = 350 /\ Humidity = 390 /\ Rain = 0
    /\ advice = MsgHot

\* C16: more than 5 mm of rain in the last hour gives 'no irrigation
\* needed' whatever the temperature and the humidity are, those of extreme
\* heat and of hot weather included.
C16_RainFirst ==
    apc = "advised" /\ HasRainDict /\ IsNum(weather_data.current.rain, "1h") /\ Rain > 50 =>
        /\ advice_exc = "none"
        /\ advice = MsgRain

C16_Witness ==
    /\ apc = "advised"
    /\ Numeric
    /\ Temp = 360 /\ Humidity = 390 /\ Rain = 100
    /\ advice = MsgRain

\* signal k of current is left out, or is a number
AbsentOrNum(d, k) == k \notin DOMAIN d \/ d[k] # NoneNum
\* the argument is a dict whose current is left out, or is a dict whose
\* signals are left out or numbers, at least one of them left out
Partial ==
    /\ weather_data # NoneObj
    /\ \/ "current" \notin DOMAIN weather_data
       \/ /\ HasCurrent
          /\ AbsentOrNum(weather_data.current, "temp")
          /\ AbsentOrNum(weather_data.current, "humidity")
          /\ \/ "rain" \notin DOMAIN weather_data.current
             \/ HasRainDict /\ AbsentOrNum(weather_data.current.rain, "1h")
          /\ ~Numeric

\* C17: with current left out or partial the call does not raise: each
\* signal left out is replaced by its default (25 degrees, 60 percent, no
\* rain) and the decision table is applied; a value without current gives
\* 'regular irrigation'.
C17_DefaultsForMissing ==
    apc = "advised" /\ Partial =>
        LET cur == GetD(weather_data, "current", EmptyDict)
            rn == GetD(cur, "rain", EmptyDict)
        IN /\ advice_exc = "none"
           /\ advice = DecisionTable(GetD(cur, "temp", 250), GetD(cur, "humidity", 600),
                                     GetD(rn, "1h", 0))
           /\ "current" \notin DOMAIN weather_data => advice = MsgRegular

C17_Witness ==
    /\ apc = "advised"
    /\ HasCurrent
    /\ DOMAIN weather_data.current = {"temp"}
    /\ Temp = 360
    /\ advice = MsgRegular

Messages == {MsgRain, MsgExtremeHeat, MsgHot, MsgRegular, MsgUnavailable}

\* the evaluation of the call meets None where it needs a dict, or compares
\* None with a number
FaultOccurs ==
    \/ weather_data = NoneObj
    \/ "current" \in DOMAIN weather_data /\ weather_data.current = NoneObj
    \/ /\ HasCurrent
       /\ LET cur == weather_data.current IN
          \/ "rain" \in DOMAIN cur /\ cur.rain = NoneObj
          \/ LET r == GetD(GetD(cur, "rain", EmptyDict), "1h", 0)
                 h == GetD(cur, "humidity", 600)
                 t == GetD(cur, "temp", 250)
             IN \/ r = NoneNum
                \/ r <= 50 /\ h = NoneNum
                \/ r <= 50 /\ h # NoneNum /\ h < 600 /\ t = NoneNum

\* C18: a fault met while deriving the advice does not leave the call: the
\* call returns the 'weather data not available' message, so that what a
\* call returns is always one of the five messages.
C18_FaultGivesUnavailable ==
    apc = "advised" =>
        /\ advice_exc = "none"
        /\ advice \in Messages
        /\ FaultOccurs <=> advice = MsgUnavailable

C18_Witness ==
    /\ apc = "advised"
    /\ HasCurrent
    /\ IsNum(weather_data.current, "humidity") /\ Humidity = 390
    /\ "temp" \in DOMAIN weather_data.current /\ Temp = NoneNum
    /\ advice = MsgUnavailable

\* a call agrees with the earlier call kept, when both had the same current
AgreesWithEarlier ==
    apc = "advised" /\ earlier.set /\ earlier.key = SignalsOf(weather_data) =>
        /\ advice = earlier.advice
        /\ advice_exc = earlier.exc

\* C19: what a call returns depends on weather_data.current alone: it is
\* what any earlier call with the same current returned, whatever the crop,
\* the other entries of weather_data and the calls in between; and the call
\* sends no request and changes neither its argument nor the service.
C19_FunctionOfCurrentOnly ==
    /\ [](AgreesWithEarlier /\ requests = <<>> /\ inflight = {})
    /\ [][apc = "called" /\ apc' = "advised" =>
             /\ weather_data' = weather_data
             /\ UNCHANGED <<earlier, rvars>>]_vars

C19_Witness ==
    /\ apc = "advised"
    /\ earlier.set
    /\ earlier.key = SignalsOf(weather_data)
    /\ earlier.crop = "general"
    /\ crop = "rice"
    /\ "forecast" \notin DOMAIN weather_data
    /\ advice = MsgHot

----------------------------------------------------------------------------
(* Claims about concurrent calls *)

\* C20: calls of get_weather_data in progress at the same time on the one
\* instance share nothing.  Every response a call has consumed is the
\* answer to its own request; two calls with the same arguments and the
\* same answers return the same value; every call that gets past the
\* opening of its client sends its own Weather Union request first, whatever
\* calls came before; and the instance's attributes stay as __init__ set
\* them.
C20_NoSharedState ==
    /\ service = ServiceInit
    /\ \A i \in CallIds :
          /\ \A r \in Reqs : frame[i].outcome[r] # NoOutcome =>
                frame[i].outcome[r] = replied[i][r]
          /\ frame[i].pc = "done" /\ "source" \in DOMAIN frame[i].result =>
                /\ frame[i].requests # <<>>
                /\ frame[i].requests[1] = ReqA
                /\ frame[i].outcome[ReqA] # NoOutcome
    /\ \A i, j \in CallIds :
          /\ frame[i].pc = "done" /\ frame[j].pc = "done"
          /\ frame[i].city = frame[j].city /\ frame[i].state = frame[j].state
          /\ replied[i] = replied[j]
          => frame[i].result = frame[j].result /\ frame[i].raised = frame[j].raised

C20_Witness ==
    /\ frame[1].pc = "done" /\ frame[2].pc = "done"
    /\ frame[1].city = "Delhi" /\ frame[2].city = "Delhi"
    /\ frame[1].state = frame[2].state
    /\ replied[1][ReqA] = Resp(200, OkBody)
    /\ replied[2][ReqA] = Threw("TimeoutException")
    /\ frame[1].result.source = "weather_union"
    /\ frame[2].result.source = "open_meteo"

----------------------------------------------------------------------------
(* Claims about termination *)

Awaiting == pc \in {"awaitA", "awaitBcur", "awaitBfc", "awaitC"}

\* C21: every call of get_weather_data that is waiting for a provider
\* eventually returns: when every request completes, fails or times out,
\* the call reaches its return and the awaiting caller has a value (a
\* provider's result, the mock data or the error value), not an exception.
C21_EventuallyReturns ==
    Awaiting ~> (pc = "done" /\ ~raised /\ result # NoResult)

C21_Witness ==
    /\ pc = "done"
    /\ ~raised
    /\ requests = <<ReqA, ReqBcur, ReqBfc, ReqC>>
    /\ result.source = "mock_data"

----------------------------------------------------------------------------
(* Claims about the get_weather_recommendations tool *)

ToolDone == tool.pc = "done"
ToolSucceeded == ToolDone /\ ~tool.raised /\ GetD(tool.response, "success", FALSE) = TRUE

\* C22: the response of get_weather_recommendations that was built from the
\* mock data says so: it carries the source tag of the resolve result it
\* was built from.
C22_SyntheticDistinguishable ==
    ToolSucceeded /\ GetD(tool.weather_data, "source", "") = "mock_data" =>
        /\ "source" \in DOMAIN tool.response
        /\ tool.response.source = "mock_data"

\* a provider's result whose temp or humidity is null
NullSignal(wd) ==
    /\ "current" \in DOMAIN wd
    /\ \E k \in {"temp", "humidity"} : k \in DOMAIN wd.current /\ wd.current[k] = NoneNum

\* C25: a provider's 200 answer that leaves out temperature or humidity is
\* accepted with null values, and the irrigation advice derived from that
\* result is the "not available" message; and the advice derived from any
\* value of get_weather_data is one of the five messages, without an
\* exception.
C25_NullValuesGiveUnavailable ==
    tool.advised =>
        /\ ~tool.raised
        /\ tool.irrigation_rec \in Messages
        /\ NullSignal(tool.weather_data) => tool.irrigation_rec = MsgUnavailable

\* C26: get_weather_recommendations never raises and its response always
\* has a success entry.  With an error value from get_weather_data the
\* response is {error, success: False}, no irrigation advice is derived and
\* the LLM is not called; when the LLM call fails success is False; success
\* is True exactly when both went well, and then the response holds the
\* irrigation recommendation.
C26_ToolResponses ==
    /\ ~tool.raised
    /\ ToolDone =>
          /\ "success" \in DOMAIN tool.response
          /\ "error" \in DOMAIN tool.weather_data =>
                /\ tool.response = [error |-> tool.weather_data.error, success |-> FALSE]
                /\ ~tool.advised
                /\ tool.llm_calls = 0
          /\ tool.llm = "APIError" => tool.response.success = FALSE
          /\ tool.response.success <=>
                /\ "current" \in DOMAIN tool.weather_data
                /\ "error" \notin DOMAIN tool.weather_data
                /\ tool.llm = "ok"
          /\ tool.response.success =>
                /\ tool.llm_calls = 1
                /\ tool.response.irrigation_recommendation = tool.irrigation_rec
                /\ tool.irrigation_rec \in Messages

C26_Witness ==
    /\ ToolDone
    /\ GetD(tool.weather_data, "source", "") = "weather_union"
    /\ tool.advised
    /\ tool.llm = "APIError"
    /\ tool.response = [error |-> "APIError", success |-> FALSE]

----------------------------------------------------------------------------
(* Claims about calculate_planting_schedule *)

\* the planting month that comes soonest at or after month m in calendar
\* order, next year's first one when none is left this year
NextWindow(S, m) == CHOOSE p \in S : \A q \in S : (p - m) % 12 <= (q - m) % 12

\* C23: for every crop of the table and every current month,
\* next_planting_month is the crop's planting month that comes soonest at
\* or after the current month in calendar order, wrapping into the next
\* year (the current month itself when it is a planting month).
C23_NextPlantingWindow ==
    planting.pc \in {"llm", "done"} =>
        \A c \in DOMAIN planting.schedule :
            planting.schedule[c].next_planting_month =
                NextWindow(Range(INDIAN_CROPS[Lower(c)].planting_months), planting.current_month)

----------------------------------------------------------------------------
(* Claims about create_farming_calendar *)

\* C24: for every start date the twelve iterations land in twelve distinct
\* calendar months, so the calendar has exactly 12 entries, one for each
\* month of the year.
C24_TwelveMonths ==
    farming.pc \in {"llm", "done"} =>
        /\ \A i, j \in 1..Len(farming.months) : i # j => farming.months[i] # farming.months[j]
        /\ Cardinality(DOMAIN farming.calendar_data) = 12
        /\ {farming.calendar_data[n].month : n \in DOMAIN farming.calendar_data} = 1..12

----------------------------------------------------------------------------
(* Claims about the authentication middleware *)

\* the header starts with "Bearer " and verify_bearer_token accepted what
\* comes after it
Authenticated ==
    /\ Len(auth.auth_header) >= 7
    /\ SubSeq(auth.auth_header, 1, 7) = BearerPrefix
    /\ auth.token = SubSeq(auth.auth_header, 8, Len(auth.auth_header))
    /\ auth.verified
    /\ auth.verdict

\* C27: a request reaches call_next, and so a handler, only if its
\* Authorization header starts with "Bearer " and verify_bearer_token
\* accepted the rest of it; every other request ends in the 401 error and
\* no handler has run for it.
C27_OnlyAuthenticatedReachHandlers ==
    /\ auth.pc = "call_next" \/ auth.ran => Authenticated
    /\ auth.pc = "done" /\ ~Authenticated => auth.outcome = "401" /\ ~auth.ran

C27_Witness ==
    /\ auth.pc = "done"
    /\ auth.served = 1
    /\ startswith(auth.auth_header, BearerPrefix)
    /\ auth.verified /\ ~auth.verdict
    /\ auth.outcome = "401"

----------------------------------------------------------------------------
(* Claims about the keep-alive thread *)

Last(h) == h[Len(h)]
Front(h) == SubSeq(h, 1, Len(h) - 1)

RECURSIVE RoundsWithoutSuccess(_)
\* the finished rounds since the last one in which an endpoint answered
\* 200 or 202
RoundsWithoutSuccess(h) ==
    IF h = <<>> \/ Last(h) = "ok" THEN 0 ELSE 1 + RoundsWithoutSuccess(Front(h))

RECURSIVE FailedRounds(_)
\* the rounds since the last successful one that went through every
\* endpoint without a 200 or 202
FailedRounds(h) ==
    IF h = <<>> \/ Last(h) = "ok" THEN 0
    ELSE (IF Last(h) = "failed" THEN 1 ELSE 0) + FailedRounds(Front(h))

\* C28 as stated: consecutive_failures counts the consecutive rounds in
\* which no endpoint answered 200/202, set back to 0 on reaching 3: it is
\* in 0..2 when a round starts, and the alarm is printed exactly in every
\* third consecutive round without a 200/202.
C28_CountsRoundsWithoutSuccess ==
    /\ ping.consecutive_failures \in 0..2
    /\ ping.consecutive_failures = RoundsWithoutSuccess(ping.history) % max_failures
    /\ ping.alarm <=> /\ RoundsWithoutSuccess(ping.history) > 0
                      /\ RoundsWithoutSuccess(ping.history) % max_failures = 0

\* C28 as amended: consecutive_failures counts the rounds since the last
\* successful one that went through every endpoint without a 200/202, set
\* back to 0 on reaching 3; a round cut short by another exception leaves it
\* as it is.  It is in 0..2 when a round starts and never exceeds 3, and the
\* alarm is printed exactly in every third such round.
C28_CountsCompletedFailedRounds ==
    /\ ping.consecutive_failures \in 0..2
    /\ ping.consecutive_failures = FailedRounds(ping.history) % max_failures
    /\ ping.alarm <=> /\ ping.history # <<>>
                      /\ Last(ping.history) = "failed"
                      /\ FailedRounds(ping.history) % max_failures = 0

C28_Witness ==
    /\ ping.pc = "sleep"
    /\ ping.alarm
    /\ "aborted" \in Range(ping.history)

RoundOver(n) == ping.pc \in {"sleep", "except"} /\ Len(ping.history) = n
RoundStarted(n) == ping.pc = "get" /\ Len(ping.history) = n

\* C29: the keep-alive loop never stops.  Within a round a request error
\* (or a status other than 200/202) only moves on to the next endpoint, and
\* the round ends at the first 200/202; an exception of another class ends
\* the round in the outer handler; the thread never ends; and after every
\* round (and after the start of the thread) the next round is eventually
\* started.
C29_NeverStopsPinging ==
    /\ [](/\ ping.pc \in {"idle", "sleep", "get", "except"}
          /\ \A k \in 1..(Len(ping.tried) - 1) : ping.tried[k] \notin {"200", "202", "OSError"}
          /\ ping.pc = "get" =>
                /\ ping.endpoint = Len(ping.tried) + 1
                /\ ping.endpoint <= Len(endpoints)
                /\ \A k \in 1..Len(ping.tried) : ping.tried[k] \notin {"200", "202", "OSError"}
          /\ ping.pc = "except" => Last(ping.tried) = "OSError" /\ Last(ping.history) = "aborted"
          /\ ping.pc = "sleep" /\ ping.history # <<>> =>
                \/ Last(ping.history) = "ok" /\ Alive(Last(ping.tried))
                \/ Last(ping.history) = "failed" /\ Len(ping.tried) = Len(endpoints)
                      /\ ~Alive(Last(ping.tried))
                \/ Last(ping.history) = "aborted")
    /\ \A n \in 0..(MaxRounds - 1) : RoundOver(n) ~> RoundStarted(n)

C29_Witness ==
    /\ ping.pc = "get"
    /\ ping.tried = <<"RequestException", "503">>
    /\ Len(ping.history) >= 2
    /\ ping.history[1] = "aborted"
    /\ ping.history[2] = "ok"

----------------------------------------------------------------------------
(* Claims about calculate_profitability *)

MarketAnswered == market.pc \in {"llm", "done"}
Profit == market.profitability
KnownCrop == Lower(market.request.crop) \in DOMAIN avg_yields
NumericRequest == market.request.area_acres # NoneNum /\ market.request.investment # NoneNum

\* net_profit = Whole * investment + Rest with 0 <= Rest < investment
Whole == Profit.net_profit \div market.request.investment
Rest == Profit.net_profit % market.request.investment

\* what C30 says of every result but the margin: nothing is raised; a crop
\* outside the yield table gives an error value; for a known crop
\* gross_income = yield_per_acre * area_acres * price_per_quintal and
\* net_profit = gross_income - investment, the margin is 0 when
\* investment <= 0, and the price is the one get_market_prices reports for
\* the crop.  (An area or investment of None makes the arithmetic raise a
\* TypeError, which line 82 turns into an error value as well.)
ProfitabilityFigures ==
    /\ ~market.raised
    /\ MarketAnswered /\ ~KnownCrop =>
          /\ DOMAIN Profit = {"error"}
          /\ "error" \in DOMAIN market.market_data
    /\ MarketAnswered /\ KnownCrop /\ ~NumericRequest => DOMAIN Profit = {"error"}
    /\ MarketAnswered /\ KnownCrop /\ NumericRequest =>
          /\ "error" \notin DOMAIN Profit
          /\ Profit.gross_income =
                avg_yields[Lower(market.request.crop)] * market.request.area_acres
                    * Profit.price_per_quintal
          /\ Profit.net_profit = Profit.gross_income - 10 * market.request.investment
          /\ market.request.investment <= 0 => Profit.profit_margin_percent = 0
          /\ "data" \in DOMAIN market.market_data
          /\ Profit.price_per_quintal = market.market_data.data.price_per_quintal

\* C30 as stated: calculate_profitability never raises, and with the
\* figures above profit_margin_percent is net_profit / investment * 100
\* whenever investment > 0.
C30_ProfitabilityExact ==
    /\ ProfitabilityFigures
    /\ MarketAnswered /\ KnownCrop /\ NumericRequest /\ market.request.investment > 0 =>
          \* margin / 100 = (net_profit / 10) / investment * 100, that is
          \* margin = Whole * 1000 + Rest * 1000 / investment
          (Profit.profit_margin_percent - Whole * 1000) * market.request.investment
              = Rest * 1000

\* C30 as amended: the same, with profit_margin_percent being
\* net_profit / investment * 100 rounded to two decimals.
C30_ProfitabilityRounded ==
    /\ ProfitabilityFigures
    /\ MarketAnswered /\ KnownCrop /\ NumericRequest /\ market.request.investment > 0 =>
          \* | margin - net_profit * 1000 / investment | <= 1 / 2
          LET diff == 2 * ((Profit.profit_margin_percent - Whole * 1000)
                               * market.request.investment - Rest * 1000)
          IN /\ diff <= market.request.investment
             /\ -diff <= market.request.investment

C30_Witness ==
    /\ market.pc = "done"
    /\ market.request.crop = "rice"
    /\ market.request.area_acres = 20
    /\ market.request.investment = 90000
    /\ Profit.gross_income = 1050000
    /\ Profit.net_profit = 150000
    /\ Profit.profit_margin_percent = 1667

====
